---- MODULE Spec2Model ----
(***************************************************************************)
(* The fluent request builder of the gotenberg client, in its three        *)
(* variants present in the source:                                         *)
(*   "request" : src/httpclient.go  - every Method* call returns a fresh   *)
(*               Request; the scratch-buffer pool is a package global.     *)
(*   "reset"   : src/config.go:69-400 - the Client is the builder, Send    *)
(*               defers Reset.                                             *)
(*   "form"    : src/gotenberg_cli_url_builder.go:629-1066 - the Client is *)
(*               the builder, there is no Reset.                           *)
(* Each chain method is an operator from the builder record to the builder *)
(* record, translated statement by statement; each action applies one      *)
(* method to one builder.                                                  *)
(***************************************************************************)
EXTENDS Integers, Sequences, FiniteSets, TLC

VARIABLES
    variant,      \* which of the three builders this run is about
    reqs,         \* the builders the caller holds (Request or Client structs)
    bufferPool,   \* httpclient.go: the package-level sync.Pool
    boundaries,   \* number of multipart writers (random boundaries) created
    sent,         \* requests handed to http.Client.Do, in order
    dispatched,   \* per builder: requests handed to Do since its last Reset
    held,         \* per builder: the scratch buffer of its File call in progress
    client,       \* what NewClient returned: the Client (or nil) and the error
    transport,    \* the caller's context and the Do call in progress, if any
    ret,          \* what the last Err/Send call returned
    lastOp,       \* the last call made: its name, its builder and its arguments
    pre,          \* facts about the builder as it was before the last call
    ops           \* number of calls made so far

vars == <<variant, reqs, bufferPool, boundaries, sent, dispatched, held, client,
          transport, ret, lastOp, pre, ops>>

----------------------------------------------------------------------------
(* Bounds of the model *)

MaxOps == 4
MaxReqs == 2
MaxConversions == 1      \* conversion Requests the caller of gotenberg.go holds
MaxCalls == 3            \* calls the caller of the conversion functions makes

(* Program constants *)

bufferSize == 4096
BoundaryLen == 60

\* a nil pointer or interface; nil error; nil *http.Response
Nil == [nil |-> TRUE]
NoErr == "nil"
NoResp == "nil"

Variants == {"request", "reset", "form"}

ContentType == "Content-Type"
ContentLength == "Content-Length"
ApplicationJSON == "application/json"

----------------------------------------------------------------------------
(* Inputs the caller may pass *)

Methods == {"GET", "POST"}
Paths == {"/test"}
Contexts == {"ctx", "nil"}           \* a context, or a nil Context
HeaderKeys == {"X-Test", ContentType, ContentLength}
HeaderInputs == {<<"X-Test", "a">>, <<"X-Test", "b">>, <<"x-test", "b">>}
\* maps passed to Headers and QueryParams, as the sequence of pairs the range visits
HeaderMaps == {<<>>,
               << <<"X-Test", "a">>, <<"x-test", "b">> >>,
               << <<"x-test", "b">>, <<"X-Test", "a">> >>}
ContentTypes == {"text/plain"}
QueryKeySeq == <<"p", "q">>          \* the query keys used, in sorted order
QueryKeys == {QueryKeySeq[n] : n \in DOMAIN QueryKeySeq}
QueryInputs == {<<"p", "a">>, <<"p", "">>}
ParamMaps == {<< <<"p", "b">>, <<"q", "">> >>,
              << <<"q", "">>, <<"p", "b">> >>}
\* url.Values passed to QueryValues, and the order the range visits their keys
ValueMaps == {[values |-> [p |-> <<"a", "b">>, q |-> <<"">>], keys |-> <<"p", "q">>],
              [values |-> [p |-> <<"a", "b">>, q |-> <<"">>], keys |-> <<"q", "p">>],
              [values |-> [p |-> <<"", "b">>, q |-> <<>>], keys |-> <<"p">>]}
Readers == {"body"}                  \* io.ReadCloser passed to Body
Payloads == {"hello", ""}
Strings == {"hi"}
JSONValues == {"map", "chan"}        \* json.Marshal fails on a channel
JSONText == "{\"key\":\"value\"}"
FieldInputs == {<<"name", "value">>, <<"files", "x">>}
FileFields == {"files"}
FileNames == {"upload.txt"}
\* file contents: the data the reader yields and whether it then fails
Contents == {[data |-> "hello", fails |-> FALSE], [data |-> "he", fails |-> TRUE]}
Outcomes == {"ok", "error"}          \* results a multipart.Writer call declares
TransportResults == {"response", "transport error"}

\* textproto.CanonicalMIMEHeaderKey, as http.Header.Set applies it to the key
CanonicalKey(k) == IF k = "x-test" THEN "X-Test" ELSE k

----------------------------------------------------------------------------
(* http.Request as the builder prepares it *)

\* http.Header: key -> list of values; Set leaves exactly one
EmptyHeader == [k \in HeaderKeys |-> <<>>]

\* the request bound to context.Background() whatever context is given
NewRequestWithContext_Background(ctx, method, url) ==
    [ctx |-> "background", Method |-> method, URL |-> url, RawQuery |-> <<>>,
     Header |-> EmptyHeader, Body |-> Nil]

NewRequestWithContext(ctx, method, url) ==
    [ctx |-> ctx, Method |-> method, URL |-> url, RawQuery |-> <<>>,
     Header |-> EmptyHeader, Body |-> Nil]

(* sync.Pool of scratch buffers: its free list, and the number of Get, New  *)
(* and Put calls made on it.                                               *)
NewPool == [free |-> {}, gets |-> 0, news |-> 0, puts |-> 0]

(* The builder struct.  httpclient.go's Request has no pool of its own.    *)
NewRequest == [request |-> Nil, multipart |-> FALSE, writer |-> Nil,
               buffer |-> Nil, err |-> NoErr, crashed |-> FALSE]


NewClient == [request |-> Nil, multipart |-> FALSE, writer |-> Nil,
              buffer |-> Nil, err |-> NoErr, crashed |-> FALSE,
              bufPool |-> NewPool]

\* a nil pointer dereference: the goroutine panics inside the call
NilDeref(b) == [b EXCEPT !.crashed = TRUE]

----------------------------------------------------------------------------
(* mime/multipart.Writer over a bytes.Buffer.  The buffer is the sequence   *)
(* of segments written to it and not yet read.                             *)

\* &bytes.Buffer{}
NewBuffer == [unread |-> <<>>]

(* closed is not a field of the Go Writer, which keeps no such flag: it     *)
(* records that Close has been called on it.                               *)
NewWriter(bnd) == [boundary |-> bnd, lastpart |-> FALSE, closed |-> FALSE]

\* Writer.CreatePart followed by the writes to the part
PartSegment(w, kind, name, filename, data) ==
    [t |-> "part", boundary |-> w.boundary, lead |-> w.lastpart, kind |-> kind,
     name |-> name, filename |-> filename, data |-> data]

\* Writer.Close: "\r\n--boundary--\r\n"
EndSegment(w) == [t |-> "end", boundary |-> w.boundary]

SegLen(s) ==
    IF s.t = "end"
    THEN 2 + 2 + BoundaryLen + 2 + 2
    ELSE (IF s.lead THEN 2 ELSE 0) + 2 + BoundaryLen + 2
         + (IF s.kind = "field"
            THEN 38 + Len(s.name) + 3 + 2
            ELSE 38 + Len(s.name) + 13 + Len(s.filename) + 3 + 38 + 2 + 2)
         + Len(s.data)

RECURSIVE BufLen(_)
BufLen(buf) == IF buf = <<>> THEN 0 ELSE SegLen(Head(buf)) + BufLen(Tail(buf))

\* strconv.Itoa, for the lengths a body can have (none is negative)
Digits == <<"0", "1", "2", "3", "4", "5", "6", "7", "8", "9">>

RECURSIVE Itoa(_)
Itoa(n) == IF n < 10 THEN Digits[n + 1] ELSE Itoa(n \div 10) \o Digits[(n % 10) + 1]

----------------------------------------------------------------------------
(* net/url: URL.Query() parses RawQuery into Values (key -> list of        *)
(* values), Values.Encode() writes them back sorted by key.  RawQuery is   *)
(* the sequence of key=value pairs of the encoded string.                  *)

RECURSIVE ValuesOf(_, _)
ValuesOf(raw, k) ==
    IF raw = <<>> THEN <<>>
    ELSE (IF Head(raw)[1] = k THEN <<Head(raw)[2]>> ELSE <<>>) \o ValuesOf(Tail(raw), k)

Query(raw) == [k \in QueryKeys |-> ValuesOf(raw, k)]

RECURSIVE PairsOf(_, _)
PairsOf(k, vs) == IF vs = <<>> THEN <<>> ELSE <<<<k, Head(vs)>>>> \o PairsOf(k, Tail(vs))

RECURSIVE EncodeFrom(_, _)
EncodeFrom(q, n) ==
    IF n > Len(QueryKeySeq) THEN <<>>
    ELSE PairsOf(QueryKeySeq[n], q[QueryKeySeq[n]]) \o EncodeFrom(q, n + 1)

Encode(q) == EncodeFrom(q, 1)

\* Values.Get: the first value of the key, "" when there is none
Get(values, k) == IF values[k] = <<>> THEN "" ELSE values[k][1]

----------------------------------------------------------------------------
(* The chain methods.  b is the builder (the receiver r of the source).    *)

\* Multipart without its "already multipart" return
Multipart_Reenable(b, bnd) ==
    IF b.err # NoErr THEN b
    ELSE [b EXCEPT !.buffer = NewBuffer, !.writer = NewWriter(bnd), !.multipart = TRUE]

\* httpclient.go: Request.Multipart
Multipart(b, bnd) ==
    IF b.err # NoErr THEN b
    ELSE IF b.multipart THEN b
    ELSE [b EXCEPT !.buffer = NewBuffer, !.writer = NewWriter(bnd), !.multipart = TRUE]

\* config.go, gotenberg_cli_url_builder.go: Client.Multipart also makes a new pool
ClientMultipart(b, bnd) ==
    IF b.err # NoErr THEN b
    ELSE IF b.multipart THEN b
    ELSE [b EXCEPT !.bufPool = NewPool, !.buffer = NewBuffer,
                   !.writer = NewWriter(bnd), !.multipart = TRUE]

\* Header adding the value to those of the key (http.Header.Add)
Header_Add(b, key, value) ==
    IF b.err # NoErr THEN b
    ELSE IF b.request = Nil THEN NilDeref(b)
    ELSE [b EXCEPT !.request.Header[CanonicalKey(key)] = Append(@, value)]

\* Header without its deferred-error check
Header_Unchecked(b, key, value) ==
    IF b.request = Nil THEN NilDeref(b)
    ELSE [b EXCEPT !.request.Header[CanonicalKey(key)] = <<value>>]

Header(b, key, value) ==
    IF b.err # NoErr THEN b
    ELSE IF b.request = Nil THEN NilDeref(b)
    ELSE [b EXCEPT !.request.Header[CanonicalKey(key)] = <<value>>]

\* headers: the pairs of the map in the order the range statement visits them
RECURSIVE HeadersLoop(_, _)
HeadersLoop(b, headers) ==
    IF headers = <<>> \/ b.crashed THEN b
    ELSE HeadersLoop(Header(b, Head(headers)[1], Head(headers)[2]), Tail(headers))

Headers(b, headers) ==
    IF b.err # NoErr THEN b
    ELSE HeadersLoop(b, headers)

SetContentType(b, contentType) == Header(b, ContentType, contentType)

JSONContentType(b) == SetContentType(b, ApplicationJSON)

QueryParam(b, key, value) ==
    IF b.err # NoErr THEN b
    ELSE IF b.request = Nil THEN NilDeref(b)
    ELSE LET q == [Query(b.request.RawQuery) EXCEPT ![key] = <<value>>]
         IN  [b EXCEPT !.request.RawQuery = Encode(q)]

RECURSIVE SetAll(_, _)
SetAll(q, params) ==
    IF params = <<>> THEN q
    ELSE SetAll([q EXCEPT ![Head(params)[1]] = <<Head(params)[2]>>], Tail(params))

QueryParams(b, params) ==
    IF b.err # NoErr THEN b
    ELSE IF b.request = Nil THEN NilDeref(b)
    ELSE [b EXCEPT !.request.RawQuery = Encode(SetAll(Query(b.request.RawQuery), params))]

\* the loop of QueryValues encoding an empty value instead of deleting the key
RECURSIVE QueryValuesLoop_KeepsEmpty(_, _, _)
QueryValuesLoop_KeepsEmpty(q, values, keys) ==
    IF keys = <<>> THEN q
    ELSE QueryValuesLoop_KeepsEmpty([q EXCEPT ![Head(keys)] =
                                        Append(@, Get(values, Head(keys)))],
                                    values, Tail(keys))

\* keys: the keys of values in the order the range statement visits them
RECURSIVE QueryValuesLoop(_, _, _)
QueryValuesLoop(q, values, keys) ==
    IF keys = <<>> THEN q
    ELSE LET k == Head(keys)
             v == Get(values, k)
         IN  IF v = ""
             THEN QueryValuesLoop([q EXCEPT ![k] = <<>>], values, Tail(keys))
             ELSE QueryValuesLoop([q EXCEPT ![k] = Append(@, Get(values, k))],
                                  values, Tail(keys))

QueryValues(b, values, keys) ==
    IF b.err # NoErr THEN b
    ELSE IF b.request = Nil THEN NilDeref(b)
    ELSE [b EXCEPT !.request.RawQuery =
              Encode(QueryValuesLoop(Query(b.request.RawQuery), values, keys))]

\* httpclient.go: Request.Body closes the body it replaces
Body(b, body) ==
    IF b.err # NoErr THEN b
    ELSE IF b.request = Nil THEN NilDeref(b)
    ELSE [b EXCEPT !.request.Body = [kind |-> "reader", data |-> body]]

BytesBody(b, body) ==
    IF b.err # NoErr THEN b
    ELSE IF b.request = Nil THEN NilDeref(b)
    ELSE Header([b EXCEPT !.request.Body = [kind |-> "raw", data |-> body]],
                ContentLength, Itoa(Len(body)))

StringBody(b, body) == BytesBody(b, body)

JSONBody(b, body) ==
    IF b.err # NoErr THEN b
    ELSE IF body = "chan" THEN [b EXCEPT !.err = "failed to marshal JSON"]
    ELSE LET r == BytesBody(b, JSONText)
         IN  IF r.crashed THEN r ELSE JSONContentType(r)

----------------------------------------------------------------------------
(* The multipart writes of the builder *)

\* a part written in front of the parts already in the buffer
WritePart_Prepend(b, kind, name, filename, data) ==
    [b EXCEPT !.buffer.unread = <<PartSegment(b.writer, kind, name, filename, data)>> \o @,
              !.writer.lastpart = TRUE]

\* Writer.WriteField / CreateFormFile + io.CopyBuffer on b's writer and buffer
WritePart(b, kind, name, filename, data) ==
    [b EXCEPT !.buffer.unread = Append(@, PartSegment(b.writer, kind, name, filename, data)),
              !.writer.lastpart = TRUE]

\* Writer.Close on b's writer: the trailing boundary
CloseWriter(b) ==
    [b EXCEPT !.buffer.unread = Append(@, EndSegment(b.writer)),
              !.writer.lastpart = FALSE, !.writer.closed = TRUE]

\* FormDataContentType announcing a boundary that is not the writer's
FormDataContentType_Other(w) == "multipart/form-data; boundary=" \o Itoa(w.boundary + 1)

\* Writer.FormDataContentType
FormDataContentType(w) == "multipart/form-data; boundary=" \o Itoa(w.boundary)

\* FormField making a new writer and buffer on every call
FormField_NewWriter(b, bnd, fieldName, value, wr) ==
    IF b.err # NoErr THEN b
    ELSE LET r == [b EXCEPT !.buffer = NewBuffer, !.writer = NewWriter(bnd),
                            !.multipart = TRUE]
         IN  IF wr = "error"
             THEN [r EXCEPT !.err = "failed to write form field"]
             ELSE WritePart(r, "field", fieldName, "", value)

\* httpclient.go: Request.FormField.  wr: the result of Writer.WriteField
FormField(b, bnd, fieldName, value, wr) ==
    IF b.err # NoErr THEN b
    ELSE LET r == IF ~b.multipart THEN Multipart(b, bnd) ELSE b
         IN  IF r.err # NoErr THEN r
             ELSE IF wr = "error"
             THEN [r EXCEPT !.err = "failed to write form field"]
             ELSE WritePart(r, "field", fieldName, "", value)

\* config.go, gotenberg_cli_url_builder.go: Client.FormField
ClientFormField(b, bnd, fieldName, value, wr) ==
    IF b.err # NoErr THEN b
    ELSE LET r == IF ~b.multipart THEN ClientMultipart(b, bnd) ELSE b
         IN  IF r.err # NoErr THEN r
             ELSE IF wr = "error"
             THEN [r EXCEPT !.err = "failed to write form field"]
             ELSE WritePart(r, "field", fieldName, "", value)

(* sync.Pool.  Get hands out an item of the free list or, when it takes    *)
(* none, the result of New; pick is the item it takes.  An item is a byte  *)
(* slice: the identity of its backing array, its length and capacity, and  *)
(* dirty, the number of bytes earlier users left in the backing array.     *)
NewItem == [id |-> 0, len |-> 0, cap |-> bufferSize, dirty |-> 0]

\* Get leaving the item it hands out on the free list
PoolGet_Peek(pool, pick) ==
    IF pick \in pool.free
    THEN [item |-> pick, pool |-> [pool EXCEPT !.gets = @ + 1]]
    ELSE [item |-> [NewItem EXCEPT !.id = pool.news + 1],
          pool |-> [pool EXCEPT !.gets = @ + 1, !.news = @ + 1]]

PoolGet(pool, pick) ==
    IF pick \in pool.free
    THEN [item |-> pick,
          pool |-> [pool EXCEPT !.free = @ \ {pick}, !.gets = @ + 1]]
    ELSE [item |-> [NewItem EXCEPT !.id = pool.news + 1],
          pool |-> [pool EXCEPT !.gets = @ + 1, !.news = @ + 1]]

PoolPut(pool, item) == [pool EXCEPT !.free = @ \cup {item}, !.puts = @ + 1]

\* httpclient.go: buf = (*bufPtr)[:cap(*bufPtr)]
\* the buffer used as the pool hands it out
Acquire_NoReslice(item) == item

Acquire(item) == [item EXCEPT !.len = item.cap]

\* config.go, gotenberg_cli_url_builder.go: buf = (*p.(*[]byte))[:bufferSize]
ClientAcquire(item) == [item EXCEPT !.len = bufferSize]

\* io.CopyBuffer reading n bytes through buf
CopyThrough(buf, n) == [buf EXCEPT !.dirty = IF n > @ THEN n ELSE @]

\* the deferred function putting the buffer back as it is
Release_NoTruncate(pool, buf) ==
    IF buf.len > 0 THEN PoolPut(pool, buf) ELSE pool

\* the deferred function putting nothing back
Release_Dropped(pool, buf) == pool

\* httpclient.go: the deferred function of File
Release(pool, buf) ==
    IF buf.len > 0 THEN PoolPut(pool, [buf EXCEPT !.len = 0]) ELSE pool

\* config.go, gotenberg_cli_url_builder.go: the deferred function of File
ClientRelease(pool, buf) == PoolPut(pool, [buf EXCEPT !.len = 0])

(* httpclient.go: Request.File, on the package-level bufferPool, in two    *)
(* parts: up to bufferPool.Get, and from io.CopyBuffer on.                 *)
(* wr: the result of CreateFormFile; content: the reader, the data it      *)
(* yields and whether it then fails.  The result is the builder and the    *)
(* pool, and between the parts the scratch buffer (Nil: File returned).    *)
FileBegin(b, pool, bnd, wr, pick) ==
    IF b.err # NoErr THEN [r |-> b, pool |-> pool, buf |-> Nil]
    ELSE LET r == IF ~b.multipart THEN Multipart(b, bnd) ELSE b
         IN  IF r.err # NoErr THEN [r |-> r, pool |-> pool, buf |-> Nil]
             ELSE IF wr = "error"
             THEN [r |-> [r EXCEPT !.err = "failed to create form file"],
                   pool |-> pool, buf |-> Nil]
             ELSE LET got == PoolGet(pool, pick)
                  IN  [r |-> r, pool |-> got.pool, buf |-> Acquire(got.item)]

FileEnd(r, pool, buf, fieldName, filename, content) ==
    LET copied == WritePart(r, "file", fieldName, filename, content.data)
        after == Release(pool, CopyThrough(buf, Len(content.data)))
    IN  IF content.fails
        THEN [r |-> [copied EXCEPT !.err = "failed to copy file content"],
              pool |-> after]
        ELSE [r |-> copied, pool |-> after]

File(b, pool, bnd, fieldName, filename, content, wr, pick) ==
    LET begun == FileBegin(b, pool, bnd, wr, pick)
    IN  IF begun.buf = Nil THEN [r |-> begun.r, pool |-> begun.pool]
        ELSE FileEnd(begun.r, begun.pool, begun.buf, fieldName, filename, content)

\* config.go, gotenberg_cli_url_builder.go: Client.File, on the Client's bufPool
ClientFile(b, bnd, fieldName, filename, content, wr, pick) ==
    IF b.err # NoErr THEN b
    ELSE LET r == IF ~b.multipart THEN ClientMultipart(b, bnd) ELSE b
         IN  IF r.err # NoErr THEN r
             ELSE IF wr = "error"
             THEN [r EXCEPT !.err = "failed to create form file"]
             ELSE LET got == PoolGet(r.bufPool, pick)
                      buf == ClientAcquire(got.item)
                      copied == WritePart(r, "file", fieldName, filename, content.data)
                      after == ClientRelease(got.pool,
                                             CopyThrough(buf, Len(content.data)))
                  IN  IF content.fails
                      THEN [copied EXCEPT !.err = "failed to copy file content",
                                          !.bufPool = after]
                      ELSE [copied EXCEPT !.bufPool = after]

Err(b) == b.err

----------------------------------------------------------------------------
(* The method-selecting entry points *)

BaseURL == "http://localhost:3000"

\* http.NewRequestWithContext: (request, nil) or (nil, error)
NewRequestResult(b, ctx, method, url) ==
    IF ctx = "nil"
    THEN [b EXCEPT !.request = Nil, !.err = "net/http: nil Context"]
    ELSE [b EXCEPT !.request = NewRequestWithContext(ctx, method, url), !.err = NoErr]

\* httpclient.go: Client.MethodGet ... MethodDelete make a new Request
Method(method, ctx, path) == NewRequestResult(NewRequest, ctx, method, BaseURL \o path)

\* Client.Method* without its deferred-error check
ClientMethod_Unchecked(b, method, ctx, path) ==
    NewRequestResult(b, ctx, method, BaseURL \o path)

\* config.go, gotenberg_cli_url_builder.go: Client.MethodGet ... on the Client itself
ClientMethod(b, method, ctx, path) ==
    IF b.err # NoErr THEN b
    ELSE NewRequestResult(b, ctx, method, BaseURL \o path)

\* Reset leaving the deferred error and the writer in place
Reset_KeepsWriter(b) ==
    [b EXCEPT !.request = Nil, !.multipart = FALSE,
              !.buffer = IF b.buffer # Nil THEN NewBuffer ELSE Nil]

\* config.go: Client.Reset
Reset(b) ==
    [b EXCEPT !.request = Nil, !.err = NoErr, !.multipart = FALSE, !.writer = Nil,
              !.buffer = IF b.buffer # Nil THEN NewBuffer ELSE Nil]

----------------------------------------------------------------------------
(* Send.  The result is the builder after the call, the returned response  *)
(* and error, and the request handed to the transport, if any.             *)

NoRet == [resp |-> NoResp, err |-> NoErr]

BodyLen(b) ==
    IF b.request.Body = Nil THEN 0
    ELSE IF b.request.Body.kind = "multipart" THEN BufLen(b.buffer.unread)
    ELSE Len(b.request.Body.data)

\* the request as the transport sees it when Do is called
Wire(b) ==
    [request |-> b.request,
     segments |-> IF b.request.Body # Nil /\ b.request.Body.kind = "multipart"
                  THEN b.buffer.unread ELSE <<>>,
     length |-> BodyLen(b)]

\* Do calling the transport a second time when the first call fails
Do_Retry(b, result, drained) ==
    IF b.request = Nil
    THEN [r |-> NilDeref(b), resp |-> NoResp, err |-> NoErr, wire |-> <<>>]
    ELSE [r |-> IF drained /\ b.request.Body # Nil /\ b.request.Body.kind = "multipart"
                THEN [b EXCEPT !.buffer.unread = <<>>] ELSE b,
          resp |-> IF result = "response" THEN "response" ELSE NoResp,
          err |-> IF result = "response" THEN NoErr ELSE result,
          wire |-> IF result = "response" THEN <<Wire(b)>> ELSE <<Wire(b), Wire(b)>>]

(* http.Client.Do.  result: what the transport answers; drained: whether   *)
(* it read the body before answering.                                      *)
Do(b, result, drained) ==
    IF b.request = Nil
    THEN [r |-> NilDeref(b), resp |-> NoResp, err |-> NoErr, wire |-> <<>>]
    ELSE [r |-> IF drained /\ b.request.Body # Nil /\ b.request.Body.kind = "multipart"
                THEN [b EXCEPT !.buffer.unread = <<>>] ELSE b,
          resp |-> IF result = "response" THEN "response" ELSE NoResp,
          err |-> IF result = "response" THEN NoErr ELSE result,
          wire |-> <<Wire(b)>>]

\* the multipart branch of Send after Close: body, Content-Type, Content-Length
AttachMultipart(b) ==
    IF b.request = Nil THEN NilDeref(b)
    ELSE LET body == [b EXCEPT !.request.Body = [kind |-> "multipart"]]
             typed == Header(body, ContentType, FormDataContentType(body.writer))
         IN  Header(typed, ContentLength, Itoa(BufLen(typed.buffer.unread)))

\* the headers computed and the body attached before Close
Finalize_CloseLast(b) == CloseWriter(AttachMultipart(b))

\* the multipart branch of Send when Close succeeds
Finalize(b) == AttachMultipart(CloseWriter(b))

\* Send ignoring the error of Close
Dispatch_IgnoresClose(b, cl, result, drained) ==
    IF b.multipart /\ b.writer # Nil /\ b.buffer # Nil
    THEN LET r == IF cl = "error" THEN AttachMultipart(b) ELSE Finalize(b)
         IN  IF r.crashed
             THEN [r |-> r, resp |-> NoResp, err |-> NoErr, wire |-> <<>>]
             ELSE Do(r, result, drained)
    ELSE Do(b, result, drained)

\* Send past the deferred-error check.  cl: the result of Writer.Close
Dispatch(b, cl, result, drained) ==
    IF b.multipart /\ b.writer # Nil /\ b.buffer # Nil
    THEN IF cl = "error"
         THEN [r |-> b, resp |-> NoResp, err |-> "failed to close multipart writer",
               wire |-> <<>>]
         ELSE LET r == Finalize(b)
              IN  IF r.crashed
                  THEN [r |-> r, resp |-> NoResp, err |-> NoErr, wire |-> <<>>]
                  ELSE Do(r, result, drained)
    ELSE Do(b, result, drained)

\* Send without its deferred-error check
Send_Unchecked(b, cl, result, drained) == Dispatch(b, cl, result, drained)

\* httpclient.go, gotenberg_cli_url_builder.go: Send
Send(b, cl, result, drained) ==
    IF b.err # NoErr
    THEN [r |-> b, resp |-> NoResp, err |-> b.err, wire |-> <<>>]
    ELSE Dispatch(b, cl, result, drained)

\* Client.Send without the deferred Reset
ClientSend_NoReset(b, cl, result, drained) == Send(b, cl, result, drained)

\* config.go: Client.Send is the same with Reset deferred
ClientSend(b, cl, result, drained) ==
    LET s == Send(b, cl, result, drained)
    IN  [s EXCEPT !.r = Reset(s.r)]

----------------------------------------------------------------------------
(* Construction.  url.Parse on the base addresses the caller may pass: it  *)
(* rejects an address with no scheme before the colon.                     *)

BaseURLs == {BaseURL, "://invalid-url"}

Parse(baseURL) ==
    IF baseURL = "://invalid-url"
    THEN [u |-> Nil, err |-> "parse \"://invalid-url\": missing protocol scheme"]
    ELSE [u |-> baseURL, err |-> NoErr]

\* NewClient returning a Client whatever url.Parse answered
HttpclientNewClient_Unchecked(baseURL) ==
    [c |-> [baseURL |-> Parse(baseURL).u], err |-> NoErr]

\* httpclient.go: NewClient; the result is the *Client (or nil) and the error
HttpclientNewClient(baseURL) ==
    LET parsed == Parse(baseURL)
    IN  IF parsed.err # NoErr
        THEN [c |-> Nil, err |-> "invalid base URL"]
        ELSE [c |-> [baseURL |-> parsed.u], err |-> NoErr]

\* no Do call in progress, the caller's context not done
Idle == [done |-> FALSE, inflight |-> 0]

----------------------------------------------------------------------------
(* The state machine: the caller makes one call at a time, on any builder  *)
(* it holds.                                                               *)

Init ==
    /\ variant \in Variants
    /\ reqs = IF variant = "request" THEN <<>> ELSE <<NewClient>>
    /\ bufferPool = NewPool
    /\ boundaries = 0
    /\ sent = <<>>
    /\ dispatched = [i \in DOMAIN reqs |-> 0]
    /\ held = [i \in DOMAIN reqs |-> Nil]
    /\ client = HttpclientNewClient(BaseURL)
    /\ transport = Idle
    /\ ret = NoRet
    /\ lastOp = [op |-> "NewClient", r |-> 0, outcome |-> "ok", arg |-> <<>>]
    /\ pre = [err |-> NoErr, multipart |-> FALSE, sent |-> 0, header |-> Nil,
              query |-> <<>>]
    /\ ops = 0

Ready == ops < MaxOps /\ \A i \in DOMAIN reqs : ~reqs[i].crashed

\* every builder the caller holds being one and the same struct
Store_Shared(i, new) == [j \in DOMAIN reqs \cup {i} |-> new]

\* the write through the receiver: to the struct of builder i, new or held already
Store(i, new) ==
    IF i \in DOMAIN reqs THEN [reqs EXCEPT ![i] = new] ELSE Append(reqs, new)

\* the encoded query of the request of builder b
RawQueryOf(b) == IF b.request = Nil THEN <<>> ELSE b.request.RawQuery

\* the headers of the request of builder b
HeaderOf(b) == IF b.request = Nil THEN Nil ELSE b.request.Header

(* A step op with arguments arg on builder i, in which the                 *)
(* multipart.Writer call it makes (if any) ends with outcome: it leaves    *)
(* builder new and pool p, hands wire to the transport and returns rv.     *)
Step(op, i, arg, outcome, new, p, wire, rv) ==
    /\ reqs' = Store(i, new)
    /\ bufferPool' = p
    /\ boundaries' = IF new.writer # Nil /\ new.writer.boundary > boundaries
                     THEN new.writer.boundary ELSE boundaries
    /\ sent' = sent \o wire
    /\ dispatched' =
          IF i \notin DOMAIN reqs THEN Append(dispatched, 0)
          ELSE IF op = "Reset" \/ (op = "Send" /\ variant = "reset")
          THEN [dispatched EXCEPT ![i] = 0]
          ELSE [dispatched EXCEPT ![i] = @ + Len(wire)]
    /\ held' = IF i \in DOMAIN reqs THEN held ELSE Append(held, Nil)
    /\ ret' = rv
    /\ lastOp' = [op |-> op, r |-> i, outcome |-> outcome, arg |-> arg]
    /\ pre' = IF i \in DOMAIN reqs
              THEN [err |-> reqs[i].err, multipart |-> reqs[i].multipart,
                    sent |-> Len(sent), header |-> HeaderOf(reqs[i]),
                    query |-> RawQueryOf(reqs[i])]
              ELSE [err |-> NoErr, multipart |-> FALSE, sent |-> Len(sent),
                    header |-> Nil, query |-> <<>>]
    /\ ops' = ops + 1
    /\ UNCHANGED <<variant, client>>

\* a call that runs from its entry to its return in one step
Call(op, i, arg, outcome, new, p, wire, rv) ==
    /\ Step(op, i, arg, outcome, new, p, wire, rv)
    /\ UNCHANGED transport

\* a chain call: it returns the builder only
Chain(op, i, new) == Call(op, i, <<>>, "ok", new, bufferPool, <<>>, NoRet)

\* a chain call whose arguments the claims refer to
ChainA(op, i, arg, new) == Call(op, i, arg, "ok", new, bufferPool, <<>>, NoRet)

\* a chain call that makes a multipart.Writer call
ChainW(op, i, arg, outcome, new) ==
    Call(op, i, arg, outcome, new, bufferPool, <<>>, NoRet)

Fresh == boundaries + 1

MethodCall ==
    /\ Ready
    /\ \E method \in Methods, ctx \in Contexts, path \in Paths :
          IF variant = "request"
          THEN /\ Len(reqs) < MaxReqs
               /\ Chain("Method", Len(reqs) + 1, Method(method, ctx, path))
          ELSE Chain("Method", 1, ClientMethod(reqs[1], method, ctx, path))

MultipartCall ==
    /\ Ready
    /\ \E i \in DOMAIN reqs :
          Chain("Multipart", i, IF variant = "request" THEN Multipart(reqs[i], Fresh)
                                ELSE ClientMultipart(reqs[i], Fresh))

HeaderCall ==
    /\ Ready
    /\ \E i \in DOMAIN reqs, h \in HeaderInputs :
          ChainA("Header", i, h, Header(reqs[i], h[1], h[2]))

HeadersCall ==
    /\ Ready
    /\ \E i \in DOMAIN reqs, headers \in HeaderMaps :
          ChainA("Headers", i, headers, Headers(reqs[i], headers))

ContentTypeCall ==
    /\ Ready
    /\ \E i \in DOMAIN reqs, contentType \in ContentTypes :
          Chain("ContentType", i, SetContentType(reqs[i], contentType))

JSONContentTypeCall ==
    /\ Ready
    /\ \E i \in DOMAIN reqs : Chain("JSONContentType", i, JSONContentType(reqs[i]))

QueryParamCall ==
    /\ Ready
    /\ \E i \in DOMAIN reqs, p \in QueryInputs :
          Chain("QueryParam", i, QueryParam(reqs[i], p[1], p[2]))

QueryParamsCall ==
    /\ Ready
    /\ \E i \in DOMAIN reqs, params \in ParamMaps :
          Chain("QueryParams", i, QueryParams(reqs[i], params))

QueryValuesCall ==
    /\ Ready
    /\ \E i \in DOMAIN reqs, m \in ValueMaps :
          ChainA("QueryValues", i, m, QueryValues(reqs[i], m.values, m.keys))

BodyCall ==
    /\ Ready
    /\ \E i \in DOMAIN reqs, body \in Readers :
          Chain("Body", i, Body(reqs[i], body))

BytesBodyCall ==
    /\ Ready
    /\ \E i \in DOMAIN reqs, body \in Payloads :
          Chain("BytesBody", i, BytesBody(reqs[i], body))

StringBodyCall ==
    /\ Ready
    /\ \E i \in DOMAIN reqs, body \in Strings :
          Chain("StringBody", i, StringBody(reqs[i], body))

JSONBodyCall ==
    /\ Ready
    /\ \E i \in DOMAIN reqs, body \in JSONValues :
          Chain("JSONBody", i, JSONBody(reqs[i], body))

FileCall ==
    /\ Ready
    /\ \E i \in DOMAIN reqs, name \in FileFields, filename \in FileNames,
          content \in Contents, wr \in Outcomes :
          IF variant = "request"
          THEN \E pick \in bufferPool.free \cup {NewItem} :
                  LET f == File(reqs[i], bufferPool, Fresh, name, filename, content, wr, pick)
                  IN  Call("File", i, <<name, filename, content.data>>, wr,
                           f.r, f.pool, <<>>, NoRet)
          ELSE \E pick \in reqs[i].bufPool.free \cup {NewItem} :
                  ChainW("File", i, <<name, filename, content.data>>, wr,
                         ClientFile(reqs[i], Fresh, name, filename, content, wr, pick))

FormFieldCall ==
    /\ Ready
    /\ \E i \in DOMAIN reqs, f \in FieldInputs, wr \in Outcomes :
          ChainW("FormField", i, <<f[1], "", f[2]>>, wr,
                 IF variant = "request" THEN FormField(reqs[i], Fresh, f[1], f[2], wr)
                 ELSE ClientFormField(reqs[i], Fresh, f[1], f[2], wr))

ErrCall ==
    /\ Ready
    /\ \E i \in DOMAIN reqs :
          Call("Err", i, <<>>, "ok", reqs[i], bufferPool, <<>>,
               [resp |-> NoResp, err |-> Err(reqs[i])])

SendCall ==
    /\ Ready
    /\ \E i \in DOMAIN reqs, cl \in Outcomes, result \in TransportResults,
          drained \in BOOLEAN :
          /\ result = "response" => drained
          /\ LET s == IF variant = "reset" THEN ClientSend(reqs[i], cl, result, drained)
                      ELSE Send(reqs[i], cl, result, drained)
             IN  Call("Send", i, <<result>>, cl, s.r, bufferPool, s.wire,
                      [resp |-> s.resp, err |-> s.err])

ResetCall ==
    /\ Ready
    /\ variant = "reset"
    /\ \E i \in DOMAIN reqs : Chain("Reset", i, Reset(reqs[i]))

Next ==
    \/ MethodCall
    \/ MultipartCall
    \/ HeaderCall
    \/ HeadersCall
    \/ ContentTypeCall
    \/ JSONContentTypeCall
    \/ QueryParamCall
    \/ QueryParamsCall
    \/ QueryValuesCall
    \/ BodyCall
    \/ BytesBodyCall
    \/ StringBodyCall
    \/ JSONBodyCall
    \/ FileCall
    \/ FormFieldCall
    \/ ErrCall
    \/ SendCall
    \/ ResetCall

Spec == Init /\ [][Next]_vars

----------------------------------------------------------------------------
(* Goroutines sharing the Client of httpclient.go: each has a Request of   *)
(* its own and calls File on it.  A File call is two steps, split where it *)
(* has taken its scratch buffer from the shared pool: sync.Pool's Get and  *)
(* Put are the only accesses to memory that the goroutines share.          *)

ConcInit ==
    /\ variant = "request"
    /\ reqs \in [1..MaxReqs -> {Method(method, "ctx", path) :
                                   method \in Methods, path \in Paths}]
    /\ bufferPool = NewPool
    /\ boundaries = 0
    /\ sent = <<>>
    /\ dispatched = [i \in DOMAIN reqs |-> 0]
    /\ held = [i \in DOMAIN reqs |-> Nil]
    /\ client = HttpclientNewClient(BaseURL)
    /\ transport = Idle
    /\ ret = NoRet
    /\ lastOp = [op |-> "Method", r |-> MaxReqs, outcome |-> "ok", arg |-> <<>>]
    /\ pre = [err |-> NoErr, multipart |-> FALSE, sent |-> 0, header |-> Nil,
              query |-> <<>>]
    /\ ops = 0

\* a step of the File call of builder i, leaving builder new, pool p and buffer buf
FileStep(op, i, arg, outcome, new, p, buf) ==
    /\ reqs' = [reqs EXCEPT ![i] = new]
    /\ bufferPool' = p
    /\ boundaries' = IF new.writer # Nil /\ new.writer.boundary > boundaries
                     THEN new.writer.boundary ELSE boundaries
    /\ held' = [held EXCEPT ![i] = buf]
    /\ lastOp' = [op |-> op, r |-> i, outcome |-> outcome, arg |-> arg]
    /\ pre' = [err |-> reqs[i].err, multipart |-> reqs[i].multipart,
               sent |-> Len(sent), header |-> HeaderOf(reqs[i]),
               query |-> RawQueryOf(reqs[i])]
    /\ ops' = ops + 1
    /\ UNCHANGED <<variant, sent, dispatched, ret, client, transport>>

\* File up to bufferPool.Get
FileAcquire ==
    /\ ops < MaxOps
    /\ \E i \in DOMAIN reqs, wr \in Outcomes, pick \in bufferPool.free \cup {NewItem} :
          /\ held[i] = Nil
          /\ LET begun == FileBegin(reqs[i], bufferPool, Fresh, wr, pick)
             IN  FileStep("FileAcquire", i, <<>>, wr, begun.r, begun.pool, begun.buf)

\* File from io.CopyBuffer to its return, the deferred Put included
FileFinish ==
    \E i \in DOMAIN reqs, name \in FileFields, filename \in FileNames,
       content \in Contents :
          /\ held[i] # Nil
          /\ LET f == FileEnd(reqs[i], bufferPool, held[i], name, filename, content)
             IN  FileStep("FileFinish", i, <<name, filename, content.data>>, "ok",
                          f.r, f.pool, Nil)

ConcNext == FileAcquire \/ FileFinish

ConcSpec == ConcInit /\ [][ConcNext]_vars

----------------------------------------------------------------------------
(* Cancellation.  The caller builds a Request of httpclient.go with its    *)
(* context and sends it; Send is two steps, split at the call of           *)
(* http.Client.Do, and the caller's context may become done (cancelled, or *)
(* its deadline passed) at any moment.  Do returns what the transport      *)
(* answers, or the context's error once the context of the request it was  *)
(* given is done.                                                          *)

CancelInit ==
    /\ variant = "request"
    /\ reqs = <<>>
    /\ bufferPool = NewPool
    /\ boundaries = 0
    /\ sent = <<>>
    /\ dispatched = <<>>
    /\ held = <<>>
    /\ client = HttpclientNewClient(BaseURL)
    /\ transport = Idle
    /\ ret = NoRet
    /\ lastOp = [op |-> "NewClient", r |-> 0, outcome |-> "ok", arg |-> <<>>]
    /\ pre = [err |-> NoErr, multipart |-> FALSE, sent |-> 0, header |-> Nil,
              query |-> <<>>]
    /\ ops = 0

\* the context of request req is done
Done(req) == req.ctx = "ctx" /\ transport.done

\* the caller is not inside a Send
Returned == transport.inflight = 0

\* the calls the caller makes between Sends
Build == Returned /\ (MethodCall \/ HeaderCall \/ FormFieldCall)

\* Send from its entry to the call of Do, or to its return when it does not get there
SendBegin ==
    /\ Ready
    /\ Returned
    /\ \E i \in DOMAIN reqs, cl \in Outcomes :
          LET s == Send(reqs[i], cl, "transport error", FALSE)
          IN  IF s.wire = <<>>
              THEN Call("Send", i, <<>>, cl, s.r, bufferPool, <<>>,
                        [resp |-> s.resp, err |-> s.err])
              ELSE /\ Step("Do", i, <<>>, cl, s.r, bufferPool, s.wire, ret)
                   /\ transport' = [transport EXCEPT !.inflight = i]

\* the caller's context is cancelled, or its deadline passes
CtxCancel ==
    /\ ~transport.done
    /\ transport' = [transport EXCEPT !.done = TRUE]
    /\ UNCHANGED <<variant, reqs, bufferPool, boundaries, sent, dispatched, held,
                   client, ret, lastOp, pre, ops>>

\* Do returns what the transport answered, and Send returns it
TransportAnswer ==
    /\ ~Returned
    /\ ~Done(reqs[transport.inflight].request)
    /\ \E result \in TransportResults, drained \in BOOLEAN :
          /\ result = "response" => drained
          /\ LET d == Do(reqs[transport.inflight], result, drained)
             IN  Step("Send", transport.inflight, <<result>>, "ok", d.r, bufferPool,
                      <<>>, [resp |-> d.resp, err |-> d.err])
    /\ transport' = [transport EXCEPT !.inflight = 0]

\* Do gives up because the context of its request is done, and Send returns the error
TransportAbort ==
    /\ ~Returned
    /\ Done(reqs[transport.inflight].request)
    /\ Step("Send", transport.inflight, <<"context canceled">>, "ok",
            reqs[transport.inflight], bufferPool, <<>>,
            [resp |-> NoResp, err |-> "context canceled"])
    /\ transport' = [transport EXCEPT !.inflight = 0]

CancelNext == Build \/ SendBegin \/ CtxCancel \/ TransportAnswer \/ TransportAbort

\* a Do call whose context is done does return
CancelSpec == CancelInit /\ [][CancelNext]_vars /\ WF_vars(TransportAbort)

----------------------------------------------------------------------------
(* Construction.  The caller makes the Client of httpclient.go from any    *)
(* base address and then builds and sends Requests with what NewClient     *)
(* returned.  A Method* call on the nil *Client dereferences c.baseURL and *)
(* panics before it returns a Request.                                     *)

NewClientInit ==
    /\ variant = "request"
    /\ reqs = <<>>
    /\ bufferPool = NewPool
    /\ boundaries = 0
    /\ sent = <<>>
    /\ dispatched = <<>>
    /\ held = <<>>
    /\ \E baseURL \in BaseURLs :
          /\ client = HttpclientNewClient(baseURL)
          /\ lastOp = [op |-> "NewClient", r |-> 0, outcome |-> "ok",
                       arg |-> <<baseURL>>]
    /\ transport = Idle
    /\ ret = NoRet
    /\ pre = [err |-> NoErr, multipart |-> FALSE, sent |-> 0, header |-> Nil,
              query |-> <<>>]
    /\ ops = 0

\* the calls made with the Client that NewClient returned
WithClient == client.c # Nil /\ (Build \/ FileCall \/ SendCall)

\* MethodGet ... MethodDelete on the nil *Client: the call panics
MethodOnNil ==
    /\ Ready
    /\ client.c = Nil
    /\ lastOp.outcome # "panic"
    /\ lastOp' = [op |-> "Method", r |-> 0, outcome |-> "panic", arg |-> <<>>]
    /\ ops' = ops + 1
    /\ UNCHANGED <<variant, reqs, bufferPool, boundaries, sent, dispatched, held,
                   client, transport, ret, pre>>

NewClientNext == WithClient \/ MethodOnNil

NewClientSpec == NewClientInit /\ [][NewClientNext]_vars

----------------------------------------------------------------------------
(* The conversion Request of gotenberg.go.  It wraps the multipart builder  *)
(* of the http-client library (req) and keeps an error of its own (err).    *)
(* The library's sources are not among those of this repository: its        *)
(* builder is taken to keep the builder contract that Request of            *)
(* httpclient.go implements, and to hand back the builder it was called on. *)

ConvertHTMLRoute == "/forms/chromium/convert/html"
ConvertURLRoute == "/forms/chromium/convert/url"
FieldURL == "url"
FieldFiles == "files"
FileIndexHTML == "index.html"
FieldPaperWidth == "paperWidth"
FieldPaperHeight == "paperHeight"
FieldMarginTop == "marginTop"
FieldMarginBottom == "marginBottom"
FieldMarginLeft == "marginLeft"
FieldMarginRight == "marginRight"
HeaderWebhookURL == "Gotenberg-Webhook-Url"
HeaderWebhookErrorURL == "Gotenberg-Webhook-Error-Url"
HeaderWebhookMethod == "Gotenberg-Webhook-Method"
HeaderWebhookErrorMethod == "Gotenberg-Webhook-Error-Method"
HeaderWebhookExtraHTTPHeaders == "Gotenberg-Webhook-Extra-Http-Headers"
HeaderOutputFilename == "Gotenberg-Output-Filename"

WebhookKeys == {HeaderWebhookURL, HeaderWebhookErrorURL, HeaderWebhookMethod,
                HeaderWebhookErrorMethod, HeaderWebhookExtraHTTPHeaders,
                HeaderOutputFilename}

(* Inputs of the conversion calls *)
URLs == {"https://example.com"}
WebhookURLs == {"https://hook.example.com"}
OutputFilenames == {"out.pdf"}
\* map[string]string passed to WebhookHeaders, as its pairs in key order
ExtraHeaderMaps == {<< <<"X-Trace", "1">> >>}
\* float64 values, as the number of hundredths they hold
Floats == {50}
PaperSizeA4 == <<827, 1170>>
\* the results of the WriteField calls of PaperSize and of Margins
PaperOutcomes == {<<"ok", "ok">>, <<"ok", "error">>}
MarginOutcomes == {<<"ok", "ok", "ok", "ok">>, <<"error", "ok", "ok", "ok">>}

\* strconv.FormatBool
FormatBool(value) == IF value THEN "true" ELSE "false"

\* strconv.FormatFloat(value, 'f', -1, 64): the shortest decimal text
FormatFloat(value) ==
    LET units == value \div 100
        frac == value % 100
    IN  IF frac = 0 THEN Itoa(units)
        ELSE IF frac % 10 = 0 THEN Itoa(units) \o "." \o Itoa(frac \div 10)
        ELSE IF frac < 10 THEN Itoa(units) \o ".0" \o Itoa(frac)
        ELSE Itoa(units) \o "." \o Itoa(frac)

\* the members of the JSON object json.Marshal writes for a map[string]string
RECURSIVE MarshalPairs(_)
MarshalPairs(headers) ==
    IF headers = <<>> THEN ""
    ELSE "\"" \o Head(headers)[1] \o "\":\"" \o Head(headers)[2] \o "\""
         \o (IF Tail(headers) = <<>> THEN "" ELSE ",")
         \o MarshalPairs(Tail(headers))

\* json.Marshal of a map[string]string: it has no failing input
Marshal(headers) == [text |-> "{" \o MarshalPairs(headers) \o "}", err |-> NoErr]

(* The library's builder *)

\* Client.MultipartPOST: a POST request with a multipart body
MultipartPOST(ctx, path, bnd) ==
    LET b == Method("POST", ctx, path)
    IN  Multipart(IF b.request = Nil THEN b
                  ELSE [b EXCEPT !.request.Header =
                                     [k \in HeaderKeys \cup WebhookKeys |-> <<>>]],
                  bnd)

RequestHeader(b, key, value) == Header(b, key, value)

\* Multipart.Param: a form field
RequestParam(b, key, value, wr) == FormField(b, 0, key, value, wr)

RequestBool(b, fieldName, value, wr) ==
    RequestParam(b, fieldName, FormatBool(value), wr)

RequestFloat(b, fieldName, value, wr) ==
    RequestParam(b, fieldName, FormatFloat(value), wr)

RequestFile(b, pool, key, filename, content, wr, pick) ==
    File(b, pool, 0, key, filename, content, wr, pick)

RequestErr(b) == Err(b)

RequestSend(b, cl, result, drained) == Send(b, cl, result, drained)

(* The wrapper *)

\* gotenberg.go: Client.ConvertHTML; the result is the Request and the pool
ConvertHTML(ctx, html, pool, bnd, wr, pick) ==
    LET f == RequestFile(MultipartPOST(ctx, ConvertHTMLRoute, bnd), pool,
                         FieldFiles, FileIndexHTML, html, wr, pick)
    IN  [r |-> [req |-> f.r, err |-> RequestErr(f.r)], pool |-> f.pool]

\* gotenberg.go: Client.ConvertURL
ConvertURL(ctx, url, bnd, wr) ==
    LET q == RequestParam(MultipartPOST(ctx, ConvertURLRoute, bnd), FieldURL, url, wr)
    IN  [req |-> q, err |-> RequestErr(q)]

GotenbergErr(r) == r.err

(* gotenberg.go: Request.Send.  calls: the number of calls of the wrapped   *)
(* builder's Send it made.                                                  *)
GotenbergSend(r, cl, result, drained) ==
    LET s == RequestSend(r.req, cl, result, drained)
    IN  [r |-> [r EXCEPT !.req = s.r],
         resp |-> IF s.err # NoErr THEN NoResp ELSE s.resp,
         err |-> s.err, wire |-> s.wire, calls |-> 1]

GotenbergHeader(r, key, value) == [r EXCEPT !.req = RequestHeader(r.req, key, value)]

GotenbergParam(r, key, value, wr) == [r EXCEPT !.req = RequestParam(r.req, key, value, wr)]

GotenbergBool(r, fieldName, value, wr) ==
    [r EXCEPT !.req = RequestBool(r.req, fieldName, value, wr)]

GotenbergFloat(r, fieldName, value, wr) ==
    [r EXCEPT !.req = RequestFloat(r.req, fieldName, value, wr)]

\* the result is the Request and the pool
GotenbergFile(r, pool, key, filename, content, wr, pick) ==
    LET f == RequestFile(r.req, pool, key, filename, content, wr, pick)
    IN  [r |-> [r EXCEPT !.req = f.r], pool |-> f.pool]

WebhookURL(r, url, method) ==
    IF r.err # NoErr THEN r
    ELSE LET q == RequestHeader(RequestHeader(r.req, HeaderWebhookURL, url),
                                HeaderWebhookMethod, method)
         IN  [req |-> q, err |-> RequestErr(q)]

OutputFilename(r, filename) ==
    IF r.err # NoErr THEN r
    ELSE LET q == RequestHeader(r.req, HeaderOutputFilename, filename)
         IN  [req |-> q, err |-> RequestErr(q)]

WebhookErrorURL(r, url, method) ==
    IF r.err # NoErr THEN r
    ELSE LET q == RequestHeader(RequestHeader(r.req, HeaderWebhookErrorURL, url),
                                HeaderWebhookErrorMethod, method)
         IN  [req |-> q, err |-> RequestErr(q)]

\* WebhookHeaders storing the error of json.Marshal whatever it is
WebhookHeaders_MarshalErr(r, headers) ==
    LET m == Marshal(headers)
    IN  [req |-> RequestHeader(r.req, HeaderWebhookExtraHTTPHeaders, m.text),
         err |-> m.err]

WebhookHeaders(r, headers) ==
    LET m == Marshal(headers)
    IN  IF m.err # NoErr THEN [r EXCEPT !.err = m.err]
        ELSE LET q == RequestHeader(r.req, HeaderWebhookExtraHTTPHeaders, m.text)
             IN  [req |-> q, err |-> RequestErr(q)]

\* wrs: the results of the WriteField calls, in order
PaperSize(r, width, height, wrs) ==
    IF r.err # NoErr THEN r
    ELSE [r EXCEPT !.req = RequestFloat(RequestFloat(r.req, FieldPaperWidth, width, wrs[1]),
                                        FieldPaperHeight, height, wrs[2])]

Margins(r, top, right, bottom, left, wrs) ==
    IF r.err # NoErr THEN r
    ELSE LET t == RequestFloat(r.req, FieldMarginTop, top, wrs[1])
             rt == RequestFloat(t, FieldMarginRight, right, wrs[2])
             bt == RequestFloat(rt, FieldMarginBottom, bottom, wrs[3])
         IN  [r EXCEPT !.req = RequestFloat(bt, FieldMarginLeft, left, wrs[4])]

(* The caller of the wrapper makes one call at a time, on any conversion    *)
(* Request it holds.                                                        *)

ConvInit ==
    /\ variant = "gotenberg"
    /\ reqs = <<>>
    /\ bufferPool = NewPool
    /\ boundaries = 0
    /\ sent = <<>>
    /\ dispatched = <<>>
    /\ held = <<>>
    /\ client = HttpclientNewClient(BaseURL)
    /\ transport = Idle
    /\ ret = NoRet
    /\ lastOp = [op |-> "NewClient", r |-> 0, outcome |-> "ok", arg |-> <<>>]
    /\ pre = [err |-> NoErr, multipart |-> FALSE, sent |-> 0, header |-> Nil,
              query |-> <<>>]
    /\ ops = 0

ConvReady == ops < MaxOps /\ \A i \in DOMAIN reqs : ~reqs[i].req.crashed

\* as Step, on the conversion Request i; pre.err is the wrapper's own error
ConvStep(op, i, arg, outcome, new, p, wire, rv) ==
    /\ reqs' = Store(i, new)
    /\ bufferPool' = p
    /\ boundaries' = IF new.req.writer # Nil /\ new.req.writer.boundary > boundaries
                     THEN new.req.writer.boundary ELSE boundaries
    /\ sent' = sent \o wire
    /\ dispatched' = IF i \notin DOMAIN reqs THEN Append(dispatched, Len(wire))
                     ELSE [dispatched EXCEPT ![i] = @ + Len(wire)]
    /\ held' = IF i \in DOMAIN reqs THEN held ELSE Append(held, Nil)
    /\ ret' = rv
    /\ lastOp' = [op |-> op, r |-> i, outcome |-> outcome, arg |-> arg]
    /\ pre' = IF i \in DOMAIN reqs
              THEN [err |-> reqs[i].err, multipart |-> reqs[i].req.multipart,
                    sent |-> Len(sent), header |-> HeaderOf(reqs[i].req),
                    query |-> RawQueryOf(reqs[i].req)]
              ELSE [err |-> NoErr, multipart |-> FALSE, sent |-> Len(sent),
                    header |-> Nil, query |-> <<>>]
    /\ ops' = ops + 1
    /\ UNCHANGED <<variant, client, transport>>

\* a chain call of the wrapper
ConvChain(op, i, arg, outcome, new) ==
    ConvStep(op, i, arg, outcome, new, bufferPool, <<>>, NoRet)

ConvertHTMLCall ==
    /\ ConvReady
    /\ Len(reqs) < MaxConversions
    /\ \E ctx \in Contexts, html \in Contents, wr \in Outcomes,
          pick \in bufferPool.free \cup {NewItem} :
          LET c == ConvertHTML(ctx, html, bufferPool, Fresh, wr, pick)
          IN  ConvStep("ConvertHTML", Len(reqs) + 1, <<ctx, html.data>>, wr, c.r,
                       c.pool, <<>>, NoRet)

ConvertURLCall ==
    /\ ConvReady
    /\ Len(reqs) < MaxConversions
    /\ \E ctx \in Contexts, url \in URLs, wr \in Outcomes :
          ConvChain("ConvertURL", Len(reqs) + 1, <<ctx, url>>, wr,
                    ConvertURL(ctx, url, Fresh, wr))

GotenbergHeaderCall ==
    /\ ConvReady
    /\ \E i \in DOMAIN reqs, url \in WebhookURLs :
          ConvChain("Header", i, <<HeaderWebhookURL, url>>, "ok",
                    GotenbergHeader(reqs[i], HeaderWebhookURL, url))

GotenbergParamCall ==
    /\ ConvReady
    /\ \E i \in DOMAIN reqs, url \in URLs, wr \in Outcomes :
          ConvChain("Param", i, <<FieldURL, url>>, wr,
                    GotenbergParam(reqs[i], FieldURL, url, wr))

GotenbergBoolCall ==
    /\ ConvReady
    /\ \E i \in DOMAIN reqs, value \in {TRUE}, wr \in Outcomes :
          ConvChain("Bool", i, <<"landscape", value>>, wr,
                    GotenbergBool(reqs[i], "landscape", value, wr))

GotenbergFloatCall ==
    /\ ConvReady
    /\ \E i \in DOMAIN reqs, value \in Floats, wr \in Outcomes :
          ConvChain("Float", i, <<"scale", value>>, wr,
                    GotenbergFloat(reqs[i], "scale", value, wr))

GotenbergFileCall ==
    /\ ConvReady
    /\ \E i \in DOMAIN reqs, content \in Contents, wr \in Outcomes,
          pick \in bufferPool.free \cup {NewItem} :
          LET f == GotenbergFile(reqs[i], bufferPool, FieldFiles, "header.html",
                                 content, wr, pick)
          IN  ConvStep("File", i, <<FieldFiles, "header.html", content.data>>, wr,
                       f.r, f.pool, <<>>, NoRet)

WebhookURLCall ==
    /\ ConvReady
    /\ \E i \in DOMAIN reqs, url \in WebhookURLs :
          ConvChain("WebhookURL", i, <<url, "POST">>, "ok",
                    WebhookURL(reqs[i], url, "POST"))

OutputFilenameCall ==
    /\ ConvReady
    /\ \E i \in DOMAIN reqs, filename \in OutputFilenames :
          ConvChain("OutputFilename", i, <<filename>>, "ok",
                    OutputFilename(reqs[i], filename))

WebhookErrorURLCall ==
    /\ ConvReady
    /\ \E i \in DOMAIN reqs, url \in WebhookURLs :
          ConvChain("WebhookErrorURL", i, <<url, "POST">>, "ok",
                    WebhookErrorURL(reqs[i], url, "POST"))

WebhookHeadersCall ==
    /\ ConvReady
    /\ \E i \in DOMAIN reqs, headers \in ExtraHeaderMaps :
          ConvChain("WebhookHeaders", i, headers, "ok",
                    WebhookHeaders(reqs[i], headers))

PaperSizeCall ==
    /\ ConvReady
    /\ \E i \in DOMAIN reqs, wrs \in PaperOutcomes :
          ConvChain("PaperSize", i, PaperSizeA4, wrs[2],
                    PaperSize(reqs[i], PaperSizeA4[1], PaperSizeA4[2], wrs))

MarginsCall ==
    /\ ConvReady
    /\ \E i \in DOMAIN reqs, m \in Floats, wrs \in MarginOutcomes :
          ConvChain("Margins", i, <<m, m, m, m>>, wrs[1],
                    Margins(reqs[i], m, m, m, m, wrs))

GotenbergErrCall ==
    /\ ConvReady
    /\ \E i \in DOMAIN reqs :
          ConvStep("Err", i, <<>>, "ok", reqs[i], bufferPool, <<>>,
                   [resp |-> NoResp, err |-> GotenbergErr(reqs[i])])

GotenbergSendCall ==
    /\ ConvReady
    /\ \E i \in DOMAIN reqs, cl \in Outcomes, result \in TransportResults :
          LET s == GotenbergSend(reqs[i], cl, result, TRUE)
          IN  ConvStep("Send", i, <<result, s.calls>>, cl, s.r, bufferPool, s.wire,
                       [resp |-> s.resp, err |-> s.err])

ConvNext ==
    \/ ConvertHTMLCall
    \/ ConvertURLCall
    \/ GotenbergHeaderCall
    \/ GotenbergParamCall
    \/ GotenbergBoolCall
    \/ GotenbergFloatCall
    \/ GotenbergFileCall
    \/ WebhookURLCall
    \/ OutputFilenameCall
    \/ WebhookErrorURLCall
    \/ WebhookHeadersCall
    \/ PaperSizeCall
    \/ MarginsCall
    \/ GotenbergErrCall
    \/ GotenbergSendCall

ConvSpec == ConvInit /\ [][ConvNext]_vars

----------------------------------------------------------------------------
(* The function-style Client of config.go (second package) and the         *)
(* HTMLConversionBuilder on top of it.  Each conversion function writes a   *)
(* multipart form of its own, builds the request and hands it to           *)
(* c.httpClient.Do.  An option that is a nil pointer is <<>>, one that is   *)
(* set is <<value>>.                                                        *)

FieldLandscape == "landscape"
FieldScale == "scale"

\* the options nobody has set
NoOptions == [Landscape |-> <<>>, Scale |-> <<>>, OutputFilename |-> <<>>,
              WebhookURL |-> <<>>]
\* the configurations the functional options of a call produce
OptionSets == {NoOptions,
               [Landscape |-> <<>>, Scale |-> <<50>>, OutputFilename |-> <<"out.pdf">>,
                WebhookURL |-> <<"https://hook.example.com">>]}
(* what may go wrong in a call: the results of its first write to the form *)
(* and of addPageProperties' first WriteField, the result of Close and the *)
(* answer of the transport; at most one of them is a failure.              *)
Faults == {[wrs |-> <<"ok", "ok">>, cl |-> "ok", result |-> "response"],
           [wrs |-> <<"error", "ok">>, cl |-> "ok", result |-> "response"],
           [wrs |-> <<"ok", "error">>, cl |-> "ok", result |-> "response"],
           [wrs |-> <<"ok", "ok">>, cl |-> "error", result |-> "response"],
           [wrs |-> <<"ok", "ok">>, cl |-> "ok", result |-> "transport error"]}
HTMLTexts == {"<html></html>"}

\* return nil, fmt.Errorf(...)
Failed(e) == [resp |-> NoResp, err |-> e, wire |-> <<>>, writers |-> 1]

\* multipart.NewWriter(&buf) over a new bytes.Buffer
NewForm(bnd) == [buffer |-> NewBuffer, writer |-> NewWriter(bnd)]

\* the fields addPageProperties writes: those of the options that are set
PageFields(props) ==
    (IF props.Landscape # <<>>
     THEN << <<FieldLandscape, FormatBool(props.Landscape[1])>> >> ELSE <<>>)
    \o (IF props.Scale # <<>>
        THEN << <<FieldScale, FormatFloat(props.Scale[1])>> >> ELSE <<>>)

RECURSIVE WriteFields(_, _)
WriteFields(form, fields) ==
    IF fields = <<>> THEN form
    ELSE WriteFields(WritePart(form, "field", Head(fields)[1], "", Head(fields)[2]),
                     Tail(fields))

\* wr: the result of the first WriteField call it makes
addPageProperties(form, props, wr) ==
    IF PageFields(props) = <<>> THEN [form |-> form, err |-> NoErr]
    ELSE IF wr = "error" THEN [form |-> form, err |-> "write error"]
    ELSE [form |-> WriteFields(form, PageFields(props)), err |-> NoErr]

\* wr: the result of CreateFormFile.  The result is the form, the pool and the error
addFileField(form, pool, fieldName, filename, content, wr, pick) ==
    IF wr = "error" THEN [form |-> form, pool |-> pool, err |-> "create error"]
    ELSE LET got == PoolGet(pool, pick)
             buf == ClientAcquire(got.item)
         IN  [form |-> WritePart(form, "file", fieldName, filename, content.data),
              pool |-> ClientRelease(got.pool, CopyThrough(buf, Len(content.data))),
              err |-> IF content.fails THEN "read error" ELSE NoErr]

addWebhookHeaders(req, opts) ==
    IF opts.WebhookURL # <<>>
    THEN [req EXCEPT !.Header[HeaderWebhookURL] = <<opts.WebhookURL[1]>>]
    ELSE req

(* the tail the two functions share: the request is made, its headers are  *)
(* set and it is handed to c.httpClient.Do, whose answer is returned.       *)
Post(ctx, path, form, config, result) ==
    IF ctx = "nil" THEN Failed("failed to create request")
    ELSE LET made == [NewRequestWithContext(ctx, "POST", BaseURL \o path) EXCEPT
                          !.Header = [k \in HeaderKeys \cup WebhookKeys |-> <<>>],
                          !.Body = [kind |-> "multipart"]]
             typed == [made EXCEPT !.Header[ContentType] =
                                       <<FormDataContentType(form.writer)>>]
             hooked == addWebhookHeaders(typed, config)
             req == IF config.OutputFilename # <<>>
                    THEN [hooked EXCEPT !.Header[HeaderOutputFilename] =
                                            <<config.OutputFilename[1]>>]
                    ELSE hooked
         IN  [resp |-> IF result = "response" THEN "response" ELSE NoResp,
              err |-> IF result = "response" THEN NoErr ELSE result,
              wire |-> <<[request |-> req, segments |-> form.buffer.unread,
                          length |-> BufLen(form.buffer.unread)]>>,
              writers |-> 1]

\* ConvertURLToPDF writing the form of whatever url it is given
ConvertURLToPDF_Unchecked(ctx, url, config, bnd, wrs, cl, result) ==
    IF wrs[1] = "error" THEN Failed("failed to write url field")
    ELSE LET props == addPageProperties(WritePart(NewForm(bnd), "field", FieldURL, "", url),
                                        config, wrs[2])
         IN  IF props.err # NoErr THEN Failed("failed to add page properties")
             ELSE IF cl = "error" THEN Failed("failed to close writer")
             ELSE Post(ctx, ConvertURLRoute, CloseWriter(props.form), config, result)

(* config.go: Client.ConvertURLToPDF.  wrs: the results of its WriteField   *)
(* call and of addPageProperties' first one; cl: the result of Close.       *)
ConvertURLToPDF(ctx, url, config, bnd, wrs, cl, result) ==
    IF url = ""
    THEN [Failed("URL is required") EXCEPT !.writers = 0]
    ELSE IF wrs[1] = "error" THEN Failed("failed to write url field")
    ELSE LET props == addPageProperties(WritePart(NewForm(bnd), "field", FieldURL, "", url),
                                        config, wrs[2])
         IN  IF props.err # NoErr THEN Failed("failed to add page properties")
             ELSE IF cl = "error" THEN Failed("failed to close writer")
             ELSE Post(ctx, ConvertURLRoute, CloseWriter(props.form), config, result)

(* config.go: Client.ConvertHTMLToPDF.  indexHTML: Nil, or the reader with  *)
(* what is left to read from it.  The result holds the pool too.            *)
ConvertHTMLToPDF(ctx, indexHTML, config, pool, bnd, wrs, cl, result, pick) ==
    IF indexHTML = Nil
    THEN [call |-> [Failed("indexHTML is required") EXCEPT !.writers = 0],
          pool |-> pool, read |-> FALSE]
    ELSE LET file == addFileField(NewForm(bnd), pool, FieldFiles, FileIndexHTML,
                                  indexHTML, wrs[1], pick)
             props == addPageProperties(file.form, config, wrs[2])
         IN  [call |-> IF file.err # NoErr THEN Failed("failed to add file index.html")
                       ELSE IF props.err # NoErr
                       THEN Failed("failed to add page properties")
                       ELSE IF cl = "error" THEN Failed("failed to close writer")
                       ELSE Post(ctx, ConvertHTMLRoute, CloseWriter(props.form),
                                 config, result),
              pool |-> file.pool, read |-> wrs[1] = "ok"]

\* gotenberg_cli_builder.go: ClientBuilder.ConvertHTML
NewHTMLConversionBuilder == [indexHTML |-> Nil, config |-> NoOptions]

\* strings.NewReader(html)
NewReader(html) == [data |-> html, fails |-> FALSE]

WithHTML(hcb, html) == [hcb EXCEPT !.indexHTML = NewReader(html)]

WithHTMLReader(hcb, reader) == [hcb EXCEPT !.indexHTML = reader]

BuilderLandscape(hcb, enabled) == [hcb EXCEPT !.config.Landscape = <<enabled>>]

BuilderOutputFilename(hcb, filename) ==
    [hcb EXCEPT !.config.OutputFilename = <<filename>>]

\* the reader after io.CopyBuffer has read it to its end or to its failure
Drained(reader) == [reader EXCEPT !.data = ""]

\* HTMLConversionBuilder.Execute; the result holds the builder and the pool too
Execute(hcb, ctx, pool, bnd, wrs, cl, result, pick) ==
    IF hcb.indexHTML = Nil
    THEN [call |-> [Failed("HTML content is required") EXCEPT !.writers = 0],
          pool |-> pool, hcb |-> hcb]
    ELSE LET c == ConvertHTMLToPDF(ctx, hcb.indexHTML, hcb.config, pool, bnd, wrs,
                                   cl, result, pick)
         IN  [call |-> c.call, pool |-> c.pool,
              hcb |-> IF c.read THEN [hcb EXCEPT !.indexHTML = Drained(@)] ELSE hcb]

\* gotenberg_cli_builder.go: ClientBuilder.ConvertURL; no url is stored
NewURLConversionBuilder == [url |-> "", config |-> NoOptions]

(* URLConversionBuilder.Execute(ctx, url): the test and the conversion use  *)
(* the builder's url field; the url parameter is not read.                  *)
URLExecute(ucb, ctx, url, bnd, wrs, cl, result) ==
    IF ucb.url = ""
    THEN [Failed("URL is required") EXCEPT !.writers = 0]
    ELSE ConvertURLToPDF(ctx, ucb.url, ucb.config, bnd, wrs, cl, result)

\* the builders of each kind
IsHTML(b) == "indexHTML" \in DOMAIN b
IsURL(b) == "url" \in DOMAIN b

(* The caller of the conversion functions: one call at a time, on the      *)
(* Client or on a builder it holds.                                        *)

PDFInit ==
    /\ variant = "functions"
    /\ reqs = <<>>
    /\ bufferPool = NewPool
    /\ boundaries = 0
    /\ sent = <<>>
    /\ dispatched = <<>>
    /\ held = <<>>
    /\ client = [c |-> [baseURL |-> BaseURL], err |-> NoErr]
    /\ transport = Idle
    /\ ret = NoRet
    /\ lastOp = [op |-> "NewClient", r |-> 0, outcome |-> "ok", arg |-> <<>>]
    /\ pre = [err |-> NoErr, multipart |-> FALSE, sent |-> 0, header |-> Nil,
              query |-> <<>>]
    /\ ops = 0

(* a call op on builder i (0: on the Client) with primary input arg: it    *)
(* leaves the builders new and pool p, and returns what call holds.         *)
PDFStep(op, i, arg, outcome, new, p, call) ==
    /\ reqs' = new
    /\ bufferPool' = p
    /\ boundaries' = boundaries + call.writers
    /\ sent' = sent \o call.wire
    /\ dispatched' = [j \in DOMAIN new |->
                         IF j \in DOMAIN dispatched
                         THEN dispatched[j] + (IF j = i THEN Len(call.wire) ELSE 0)
                         ELSE 0]
    /\ held' = [j \in DOMAIN new |-> Nil]
    /\ ret' = [resp |-> call.resp, err |-> call.err]
    /\ lastOp' = [op |-> op, r |-> i, outcome |-> outcome, arg |-> arg]
    /\ pre' = [pre EXCEPT !.sent = Len(sent)]
    /\ ops' = ops + 1
    /\ UNCHANGED <<variant, client, transport>>

\* a builder call that returns the builder
Configure(op, i, new) ==
    PDFStep(op, i, <<>>, "ok", Store(i, new), bufferPool,
            [resp |-> NoResp, err |-> NoErr, wire |-> <<>>, writers |-> 0])

ConvertURLToPDFCall ==
    /\ ops < MaxCalls
    /\ \E ctx \in Contexts, url \in URLs \cup {""}, config \in OptionSets,
          f \in Faults :
          PDFStep("ConvertURLToPDF", 0, <<url>>, f.cl, reqs, bufferPool,
                  ConvertURLToPDF(ctx, url, config, Fresh, f.wrs, f.cl, f.result))

ConvertHTMLToPDFCall ==
    /\ ops < MaxCalls
    /\ \E ctx \in Contexts, indexHTML \in Contents \cup {Nil}, config \in OptionSets,
          f \in Faults, pick \in bufferPool.free \cup {NewItem} :
          LET c == ConvertHTMLToPDF(ctx, indexHTML, config, bufferPool, Fresh, f.wrs,
                                    f.cl, f.result, pick)
          IN  PDFStep("ConvertHTMLToPDF", 0, <<indexHTML>>, f.cl, reqs, c.pool, c.call)

ClientBuilderConvertHTMLCall ==
    /\ ops < MaxCalls
    /\ Len(reqs) < MaxConversions
    /\ Configure("ConvertHTML", Len(reqs) + 1, NewHTMLConversionBuilder)

ClientBuilderConvertURLCall ==
    /\ ops < MaxCalls
    /\ Len(reqs) < MaxConversions
    /\ Configure("ConvertURL", Len(reqs) + 1, NewURLConversionBuilder)

WithHTMLCall ==
    /\ ops < MaxCalls
    /\ \E i \in DOMAIN reqs, html \in HTMLTexts :
          /\ IsHTML(reqs[i])
          /\ Configure("WithHTML", i, WithHTML(reqs[i], html))

WithHTMLReaderCall ==
    /\ ops < MaxCalls
    /\ \E i \in DOMAIN reqs, reader \in Contents \cup {Nil} :
          /\ IsHTML(reqs[i])
          /\ Configure("WithHTMLReader", i, WithHTMLReader(reqs[i], reader))

BuilderLandscapeCall ==
    /\ ops < MaxCalls
    /\ \E i \in DOMAIN reqs :
          Configure("Landscape", i, BuilderLandscape(reqs[i], TRUE))

BuilderOutputFilenameCall ==
    /\ ops < MaxCalls
    /\ \E i \in DOMAIN reqs, filename \in OutputFilenames :
          Configure("OutputFilename", i, BuilderOutputFilename(reqs[i], filename))

ExecuteCall ==
    /\ ops < MaxCalls
    /\ \E i \in DOMAIN reqs, ctx \in Contexts, f \in Faults,
          pick \in bufferPool.free \cup {NewItem} :
          /\ IsHTML(reqs[i])
          /\ LET e == Execute(reqs[i], ctx, bufferPool, Fresh, f.wrs, f.cl, f.result,
                              pick)
             IN  PDFStep("Execute", i, <<reqs[i].indexHTML>>, f.cl, Store(i, e.hcb),
                         e.pool, e.call)

URLExecuteCall ==
    /\ ops < MaxCalls
    /\ \E i \in DOMAIN reqs, ctx \in Contexts, url \in URLs \cup {""}, f \in Faults :
          /\ IsURL(reqs[i])
          /\ PDFStep("URLExecute", i, <<url>>, f.cl, reqs, bufferPool,
                     URLExecute(reqs[i], ctx, url, Fresh, f.wrs, f.cl, f.result))

PDFNext ==
    \/ ConvertURLToPDFCall
    \/ ConvertHTMLToPDFCall
    \/ ClientBuilderConvertHTMLCall
    \/ WithHTMLCall
    \/ WithHTMLReaderCall
    \/ BuilderLandscapeCall
    \/ BuilderOutputFilenameCall
    \/ ExecuteCall
    \/ ClientBuilderConvertURLCall
    \/ URLExecuteCall

PDFSpec == PDFInit /\ [][PDFNext]_vars

----------------------------------------------------------------------------
(* The MinIO storage client of minio.go and the HTTP handlers of           *)
(* builder.go (MinioAPI).  The bucket is a function from the names of the  *)
(* objects it holds to their content; every call the MinioClient makes to  *)
(* the storage server is appended to the log, and may fail for a reason of *)
(* the server's own (fault), whatever the bucket holds.                    *)

ObjectNames == {"a.pdf", "b.pdf"}
StorageFaults == {"ok", "connection refused"}
FormOutcomes == {"ok", "no form", "no file"}
EmptyBucket == [n \in {} |-> ""]
NoInfo == [ContentType |-> "", Size |-> 0]

\* one call to the storage server and its result
StorageCall(op, objectName, err) == [op |-> op, objectName |-> objectName, err |-> err]

\* the error of a call that reads objectName
ReadErr(bucket, objectName, fault) ==
    IF fault # "ok" THEN fault
    ELSE IF objectName \notin DOMAIN bucket THEN "NoSuchKey"
    ELSE NoErr

\* MinioClient.GetFileInfo: client.StatObject
GetFileInfo(bucket, objectName, fault) ==
    LET err == ReadErr(bucket, objectName, fault)
    IN  [info |-> IF err = NoErr
                  THEN [ContentType |-> "application/pdf",
                        Size |-> Len(bucket[objectName])]
                  ELSE NoInfo,
         err |-> err,
         log |-> <<StorageCall("StatObject", objectName, err)>>]

(* MinioClient.DownloadFile: GetObject sends nothing, object.Stat() is the *)
(* call that reaches the server; on its error the object is closed.        *)
DownloadFile(bucket, objectName, fault) ==
    LET err == ReadErr(bucket, objectName, fault)
    IN  [object |-> IF err = NoErr THEN bucket[objectName] ELSE "",
         err |-> err,
         log |-> <<StorageCall("GetObject", objectName, err)>>]

\* MinioClient.UploadFile: client.PutObject
UploadFile(bucket, objectName, data, fault) ==
    [bucket |-> IF fault = "ok"
                THEN [n \in DOMAIN bucket \cup {objectName} |->
                         IF n = objectName THEN data ELSE bucket[n]]
                ELSE bucket,
     err |-> IF fault = "ok" THEN NoErr ELSE fault,
     log |-> <<StorageCall("PutObject", objectName,
                           IF fault = "ok" THEN NoErr ELSE fault)>>]

\* MinioClient.DeleteFile: client.RemoveObject
DeleteFile(bucket, objectName, fault) ==
    [bucket |-> IF fault = "ok"
                THEN [n \in DOMAIN bucket \ {objectName} |-> bucket[n]]
                ELSE bucket,
     err |-> IF fault = "ok" THEN NoErr ELSE fault,
     log |-> <<StorageCall("RemoveObject", objectName,
                           IF fault = "ok" THEN NoErr ELSE fault)>>]

writeErrorResponse(statusCode, errorMsg) ==
    [status |-> statusCode, contentType |-> "application/json",
     body |-> [Success |-> FALSE, Error |-> errorMsg]]

(* MinioAPI.HandleUpload.  form: the result of ParseMultipartForm and      *)
(* FormFile; filename: the name in the file's header; query: the           *)
(* objectName parameter.                                                   *)
HandleUpload(bucket, method, query, form, filename, data, fault) ==
    IF method # "POST"
    THEN [resp |-> writeErrorResponse(405, "Method not allowed"),
          bucket |-> bucket, log |-> <<>>]
    ELSE IF form = "no form"
    THEN [resp |-> writeErrorResponse(400, "Failed to parse multipart form"),
          bucket |-> bucket, log |-> <<>>]
    ELSE IF form = "no file"
    THEN [resp |-> writeErrorResponse(400, "Failed to get file from request"),
          bucket |-> bucket, log |-> <<>>]
    ELSE LET objectName == IF query = "" THEN filename ELSE query
             up == UploadFile(bucket, objectName, data, fault)
         IN  IF up.err # NoErr
             THEN [resp |-> writeErrorResponse(500, "Failed to upload file: " \o up.err),
                   bucket |-> up.bucket, log |-> up.log]
             ELSE [resp |-> [status |-> 200, contentType |-> "application/json",
                             body |-> [Success |-> TRUE, ObjectName |-> objectName,
                                       Size |-> Len(data)]],
                   bucket |-> up.bucket, log |-> up.log]

\* HandleDownload answering whatever method the request has
HandleDownload_AnyMethod(bucket, method, objectName, faults) ==
    IF objectName = ""
    THEN [resp |-> writeErrorResponse(400, "Missing objectName parameter"),
          log |-> <<>>]
    ELSE LET stat == GetFileInfo(bucket, objectName, faults[1])
             get == DownloadFile(bucket, objectName, faults[2])
         IN  IF stat.err # NoErr
             THEN [resp |-> writeErrorResponse(404, "File not found: " \o stat.err),
                   log |-> stat.log]
             ELSE IF get.err # NoErr
             THEN [resp |-> writeErrorResponse(500, "Failed to download file: "
                                                        \o get.err),
                   log |-> stat.log \o get.log]
             ELSE [resp |-> [status |-> 200, contentType |-> stat.info.ContentType,
                             body |-> get.object],
                   log |-> stat.log \o get.log]

(* MinioAPI.HandleDownload.  faults: what the server makes of the          *)
(* StatObject call and of the GetObject call.                              *)
HandleDownload(bucket, method, objectName, faults) ==
    IF method # "GET"
    THEN [resp |-> writeErrorResponse(405, "Method not allowed"), log |-> <<>>]
    ELSE IF objectName = ""
    THEN [resp |-> writeErrorResponse(400, "Missing objectName parameter"),
          log |-> <<>>]
    ELSE LET stat == GetFileInfo(bucket, objectName, faults[1])
             get == DownloadFile(bucket, objectName, faults[2])
         IN  IF stat.err # NoErr
             THEN [resp |-> writeErrorResponse(404, "File not found: " \o stat.err),
                   log |-> stat.log]
             ELSE IF get.err # NoErr
             THEN [resp |-> writeErrorResponse(500, "Failed to download file: "
                                                        \o get.err),
                   log |-> stat.log \o get.log]
             ELSE [resp |-> [status |-> 200, contentType |-> stat.info.ContentType,
                             body |-> get.object],
                   log |-> stat.log \o get.log]

(* The server: one request or one call of the MinioClient at a time.       *)
(* client holds the bucket, sent the log of storage calls, ret the answer. *)

MinioInit ==
    /\ variant = "minio"
    /\ reqs = <<>>
    /\ bufferPool = NewPool
    /\ boundaries = 0
    /\ sent = <<>>
    /\ dispatched = <<>>
    /\ held = <<>>
    /\ client = [bucket |-> EmptyBucket]
    /\ transport = Idle
    /\ ret = [status |-> 0]
    /\ lastOp = [op |-> "NewMinioAPI", r |-> 0, outcome |-> <<>>, arg |-> <<>>]
    /\ pre = [err |-> NoErr, multipart |-> FALSE, sent |-> 0, header |-> Nil,
              query |-> <<>>]
    /\ ops = 0

\* arg: the request; outcome: what the server made of the storage calls
MinioStep(op, arg, outcome, bucket, log, resp) ==
    /\ client' = [bucket |-> bucket]
    /\ sent' = sent \o log
    /\ ret' = resp
    /\ lastOp' = [op |-> op, r |-> 0, outcome |-> outcome, arg |-> arg]
    /\ pre' = [pre EXCEPT !.sent = Len(sent)]
    /\ ops' = ops + 1
    /\ UNCHANGED <<variant, reqs, bufferPool, boundaries, dispatched, held, transport>>

HandleUploadCall ==
    /\ ops < MaxCalls
    /\ \E method \in Methods, query \in ObjectNames \cup {""}, form \in FormOutcomes,
          fault \in StorageFaults :
          LET h == HandleUpload(client.bucket, method, query, form, "a.pdf", "%PDF",
                                fault)
          IN  MinioStep("HandleUpload", <<method, query>>, <<fault>>, h.bucket, h.log,
                        h.resp)

HandleDownloadCall ==
    /\ ops < MaxCalls
    /\ \E method \in Methods, objectName \in ObjectNames \cup {""},
          faults \in StorageFaults \X StorageFaults :
          LET h == HandleDownload(client.bucket, method, objectName, faults)
          IN  MinioStep("HandleDownload", <<method, objectName>>, faults,
                        client.bucket, h.log, h.resp)

DeleteFileCall ==
    /\ ops < MaxCalls
    /\ \E objectName \in ObjectNames, fault \in StorageFaults :
          LET d == DeleteFile(client.bucket, objectName, fault)
          IN  MinioStep("DeleteFile", <<"", objectName>>, <<fault>>, d.bucket, d.log,
                        [status |-> 0])

MinioNext ==
    \/ HandleUploadCall
    \/ HandleDownloadCall
    \/ DeleteFileCall

MinioSpec == MinioInit /\ [][MinioNext]_vars

----------------------------------------------------------------------------
(* Vocabulary of the claims *)

ChainOps == {"Method", "Multipart", "Header", "Headers", "ContentType",
             "JSONContentType", "QueryParam", "QueryParams", "QueryValues",
             "Body", "BytesBody", "StringBody", "JSONBody", "File", "FormField"}

\* the builder the last call was made on
Last == reqs[lastOp.r]

\* the last call ran Reset: Reset itself, or config.go's Send, which defers it
WasReset(op) == op.op = "Reset" \/ (op.op = "Send" /\ variant = "reset")

IsPrefix(s, t) == Len(s) <= Len(t) /\ SubSeq(t, 1, Len(s)) = s

HasRawBody(b) == b.request # Nil /\ b.request.Body # Nil
                 /\ b.request.Body.kind \in {"raw", "reader"}

RECURSIVE Ends(_)
Ends(buf) == IF buf = <<>> THEN 0
             ELSE (IF Head(buf).t = "end" THEN 1 ELSE 0) + Ends(Tail(buf))

Unread(b) == IF b.buffer = Nil THEN <<>> ELSE b.buffer.unread

----------------------------------------------------------------------------
(* C1. First error wins: when a chain call (a Method* call on a reused     *)
(* Client included) is made on a builder whose deferred error is set, the  *)
(* error is the same afterwards, and Err() returns it.                     *)
C1_FirstErrorWins ==
    /\ (lastOp.op \in ChainOps /\ pre.err # NoErr) => Err(Last) = pre.err
    /\ lastOp.op = "Err" => (ret.err = pre.err /\ Err(Last) = pre.err)

C1_Witness ==
    /\ variant \in {"reset", "form"}
    /\ lastOp.op = "Method"
    /\ pre.err = "failed to copy file content"
    /\ Err(Last) = pre.err

(* C2. No side effect after the error: a chain call on a builder whose     *)
(* deferred error is set changes nothing of the builder (request, headers, *)
(* query, body, multipart flag, writer, buffer), takes nothing from the    *)
(* pool, creates no writer and sends nothing.                              *)
C2_NoEffectAfterError ==
    [][\A i \in DOMAIN reqs :
          (reqs[i].err # NoErr /\ lastOp'.op \in ChainOps /\ lastOp'.r = i)
          => /\ reqs'[i] = reqs[i]
             /\ bufferPool' = bufferPool
             /\ boundaries' = boundaries
             /\ sent' = sent]_vars

C2_Witness ==
    /\ lastOp.op = "File"
    /\ lastOp.outcome = "ok"
    /\ pre.err = "failed to marshal JSON"
    /\ Last.request # Nil

(* C3. Send on a builder whose deferred error is set returns a nil         *)
(* response and that error, and hands nothing to the transport.            *)
C3_SendReturnsDeferredError ==
    (lastOp.op = "Send" /\ pre.err # NoErr)
    => (ret = [resp |-> NoResp, err |-> pre.err] /\ Len(sent) = pre.sent)

C3_Witness ==
    /\ lastOp.op = "Send"
    /\ pre.err = "failed to marshal JSON"
    /\ ret.err = pre.err

(* C4. Body exclusivity: no builder holds a raw body and an active         *)
(* multipart accumulator at once.                                          *)
C4_BodyExclusive ==
    \A i \in DOMAIN reqs : ~(HasRawBody(reqs[i]) /\ reqs[i].multipart)

(* C5. Multipart idempotence: a Multipart, FormField or File call on a     *)
(* builder that is already multipart creates no writer, keeps the          *)
(* boundary and the buffer with the parts written so far, and Multipart    *)
(* itself changes nothing.                                                 *)
C5_MultipartIdempotent ==
    [][\A i \in DOMAIN reqs :
          (reqs[i].multipart /\ lastOp'.r = i
              /\ lastOp'.op \in {"Multipart", "FormField", "File"})
          => /\ reqs'[i].multipart
             /\ reqs'[i].writer # Nil
             /\ reqs'[i].writer.boundary = reqs[i].writer.boundary
             /\ boundaries' = boundaries
             /\ IsPrefix(Unread(reqs[i]), Unread(reqs'[i]))
             /\ lastOp'.op = "Multipart" => reqs'[i] = reqs[i]]_vars

C5_Witness ==
    /\ lastOp.op = "Multipart"
    /\ pre.multipart
    /\ pre.err = NoErr
    /\ Len(Unread(Last)) > 0
    /\ boundaries = 1

(* C6. Multipart monotonicity: between two Resets, once the multipart flag *)
(* of a builder is set it stays set and the writer keeps its boundary      *)
(* (it is not replaced); only Send writes a trailing boundary.             *)
C6_MultipartMonotonic ==
    [][\A i \in DOMAIN reqs :
          /\ (reqs[i].multipart /\ ~WasReset(lastOp'))
             => /\ reqs'[i].multipart
                /\ reqs'[i].writer # Nil
                /\ reqs'[i].writer.boundary = reqs[i].writer.boundary
          /\ lastOp'.op # "Send" => Ends(Unread(reqs'[i])) <= Ends(Unread(reqs[i]))]_vars

C6_Witness ==
    /\ lastOp.op = "FormField"
    /\ lastOp.outcome = "ok"
    /\ pre.multipart
    /\ pre.err = NoErr
    /\ Len(Unread(Last)) = 2

(* C7. Finalization before send: every multipart request handed to the     *)
(* transport ends with the trailing boundary, its Content-Length header is *)
(* the length of the whole body, trailing boundary included, and its       *)
(* Content-Type header names the boundary of that body.                    *)
C7_FinalizedBeforeSend ==
    \A k \in DOMAIN sent :
        (sent[k].request.Body # Nil /\ sent[k].request.Body.kind = "multipart")
        => /\ sent[k].segments # <<>>
           /\ sent[k].segments[Len(sent[k].segments)].t = "end"
           /\ sent[k].request.Header[ContentLength] = <<Itoa(BufLen(sent[k].segments))>>
           /\ sent[k].request.Header[ContentType] =
                 <<"multipart/form-data; boundary="
                   \o Itoa(sent[k].segments[Len(sent[k].segments)].boundary)>>

C7_Witness ==
    \E k \in DOMAIN sent :
        /\ sent[k].request.Body # Nil
        /\ sent[k].request.Body.kind = "multipart"
        /\ Len(sent[k].segments) = 3
        /\ sent[k].segments[1].kind = "field"
        /\ sent[k].segments[2].kind = "file"

(* C8. A failing Close is a Send-time error: when Send reaches Close and   *)
(* Close fails, Send returns a nil response and the close error, and       *)
(* nothing is handed to the transport.                                     *)
C8_CloseFailureReturned ==
    (lastOp.op = "Send" /\ lastOp.outcome = "error" /\ pre.err = NoErr /\ pre.multipart)
    => /\ ret = [resp |-> NoResp, err |-> "failed to close multipart writer"]
       /\ Len(sent) = pre.sent

C8_Witness ==
    /\ lastOp.op = "Send"
    /\ lastOp.outcome = "error"
    /\ pre.err = NoErr
    /\ pre.multipart
    /\ ret.err = "failed to close multipart writer"

(* C9. At most one dispatch per builder between Resets: a builder that has *)
(* been handed to the transport is not handed to it again before a Reset.  *)
C9_SentOnce == \A i \in DOMAIN reqs : dispatched[i] <= 1

(* C10. No write after Close: once Send has closed the writer of a         *)
(* builder, a FormField or File call on it writes nothing to its buffer.   *)
C10_NoWriteAfterClose ==
    [][\A i \in DOMAIN reqs :
          (reqs[i].writer # Nil /\ reqs[i].writer.closed /\ lastOp'.r = i
              /\ lastOp'.op \in {"FormField", "File"})
          => Unread(reqs'[i]) = Unread(reqs[i])]_vars

(* C11. The parts of a multipart body are in the order of the calls: a     *)
(* FormField or File call that succeeds appends exactly one part, with     *)
(* the name, file name and data of the call, after the parts already       *)
(* written, whether or not a part of that name exists; and the first Send  *)
(* hands to the transport exactly the parts written, followed by the       *)
(* trailing boundary.                                                      *)
PartOf(s) == <<s.name, s.filename, s.data>>

C11_PartsInCallOrder ==
    [][\A i \in DOMAIN reqs :
          /\ (lastOp'.r = i /\ lastOp'.op \in {"FormField", "File"}
                 /\ lastOp'.outcome = "ok" /\ reqs[i].err = NoErr
                 /\ reqs'[i].err = NoErr)
             => /\ Len(Unread(reqs'[i])) = Len(Unread(reqs[i])) + 1
                /\ IsPrefix(Unread(reqs[i]), Unread(reqs'[i]))
                /\ PartOf(Unread(reqs'[i])[Len(Unread(reqs'[i]))]) = lastOp'.arg
                /\ Unread(reqs'[i])[Len(Unread(reqs'[i]))].kind =
                      (IF lastOp'.op = "File" THEN "file" ELSE "field")
          /\ (lastOp'.r = i /\ lastOp'.op = "Send" /\ Len(sent') > Len(sent)
                 /\ reqs[i].multipart /\ Ends(Unread(reqs[i])) = 0)
             => sent'[Len(sent')].segments =
                   Append(Unread(reqs[i]), EndSegment(reqs[i].writer))]_vars

C11_Witness ==
    \E k \in DOMAIN sent :
        /\ Len(sent[k].segments) = 3
        /\ sent[k].segments[1].kind = "file"
        /\ sent[k].segments[2].kind = "field"
        /\ sent[k].segments[1].name = sent[k].segments[2].name

\* the scratch-buffer pools of the program
Pools == IF variant = "request" THEN {bufferPool}
         ELSE {reqs[i].bufPool : i \in DOMAIN reqs}

(* C12. Pool hygiene: every buffer on the free list of a pool has length   *)
(* zero and the default capacity, whatever was copied through it, so Get   *)
(* hands out no buffer with content.                                       *)
C12_PooledBuffersEmpty ==
    \A p \in Pools : \A x \in p.free : x.len = 0 /\ x.cap = bufferSize

C12_Witness ==
    /\ lastOp.op = "File"
    /\ \E p \in Pools : /\ p.gets >= 2
                        /\ p.news = 1
                        /\ \E x \in p.free : x.dirty > 0 /\ x.len = 0

(* C13. Every scratch buffer a File call takes from the pool is put back   *)
(* exactly once by the time the call returns, when the copy succeeds and   *)
(* when it fails: between calls a pool has seen as many Puts as Gets and   *)
(* every buffer it created is on its free list.                            *)
C13_BufferReturnedOnce ==
    \A p \in Pools : p.puts = p.gets /\ Cardinality(p.free) = p.news

C13_Witness ==
    /\ lastOp.op = "File"
    /\ pre.err = NoErr
    /\ Last.err = "failed to copy file content"
    /\ \E p \in Pools : p.gets = 2 /\ p.puts = 2

(* C14. The pool hands a buffer to one File call at a time: two File      *)
(* calls in progress never hold the same buffer, and a buffer a call holds *)
(* is not on the free list.                                                *)
C14_NoSharedBuffer ==
    \A i \in DOMAIN held :
        held[i] # Nil
        => /\ \A j \in DOMAIN held \ {i} : held[j] # Nil => held[j].id # held[i].id
           /\ \A x \in bufferPool.free : x.id # held[i].id

C14_Witness ==
    /\ held[1] # Nil
    /\ held[2] # Nil
    /\ bufferPool.gets = 3
    /\ bufferPool.puts = 1
    /\ bufferPool.news = 2

(* C15. Isolation of Requests: a call on one Request, the Method* call    *)
(* that creates it included, changes no other Request, and the request a   *)
(* Send hands to the transport has the method, address, query, headers and *)
(* body of the Request it was called on (with the multipart body and its   *)
(* two derived headers when that Request is multipart).                    *)
C15_RequestsIsolated ==
    [][/\ \A j \in DOMAIN reqs : lastOp'.r # j => reqs'[j] = reqs[j]
       /\ Len(sent') > Len(sent)
          => LET w == sent'[Len(sent')].request
                 b == reqs[lastOp'.r]
             IN  /\ w.Method = b.request.Method
                 /\ w.URL = b.request.URL
                 /\ w.RawQuery = b.request.RawQuery
                 /\ \A k \in HeaderKeys \ {ContentType, ContentLength} :
                       w.Header[k] = b.request.Header[k]
                 /\ ~b.multipart => w = b.request]_vars

C15_Witness ==
    /\ Len(reqs) = 2
    /\ lastOp.op = "Send"
    /\ lastOp.r = 1
    /\ Len(sent) = 1
    /\ reqs[2].request # Nil
    /\ reqs[2].request.Method = "POST"
    /\ reqs[2].request.Header["X-Test"] = <<"a">>
    /\ sent[1].request.Method = "GET"
    /\ sent[1].request.Header["X-Test"] = <<>>

(* C16. After Reset the builder has no target request, no deferred error, *)
(* the multipart flag is false and the writer is cleared, whatever it held *)
(* before.                                                                 *)
C16_ResetClears ==
    lastOp.op = "Reset"
    => /\ Last.request = Nil
       /\ Last.err = NoErr
       /\ ~Last.multipart
       /\ Last.writer = Nil

C16_Witness ==
    /\ lastOp.op = "Reset"
    /\ pre.err = "failed to copy file content"
    /\ pre.multipart
    /\ pre.header # Nil
    /\ Last.request = Nil
    /\ Last.err = NoErr

\* the backing arrays on the free list of a pool
FreeIds(pool) == {x.id : x \in pool.free}

(* C17. Reset and the operation built after it leave the free list of the  *)
(* pool alone: no call takes a released buffer off the free list of the    *)
(* builder's pool (a File call puts back the buffer it takes before it     *)
(* returns), so a buffer released before Reset is there for the File calls *)
(* of the next operation.                                                  *)
C17_FreeListKept ==
    [][\A i \in DOMAIN reqs :
          variant # "request"
          => FreeIds(reqs[i].bufPool) \subseteq FreeIds(reqs'[i].bufPool)]_vars

(* C18. After every Send on the reusable Client (config.go), whether it    *)
(* returned a response or an error, the Client has no deferred error, no   *)
(* target request and no writer, its multipart flag is false and its       *)
(* buffer holds nothing: the next operation starts from the empty state.   *)
C18_SendResets ==
    (variant = "reset" /\ lastOp.op = "Send")
    => /\ Last.err = NoErr
       /\ ~Last.multipart
       /\ Last.writer = Nil
       /\ Last.request = Nil
       /\ Unread(Last) = <<>>

C18_Witness ==
    /\ variant = "reset"
    /\ lastOp.op = "Send"
    /\ pre.multipart
    /\ pre.err = "failed to copy file content"
    /\ ret.err = pre.err
    /\ Last.err = NoErr
    /\ ~Last.multipart

(* C19. Header is last-write-wins: after a Header call that takes effect   *)
(* the key holds exactly one value, the one of this call, whatever it held *)
(* before, and the other keys hold what they held.                         *)
C19_HeaderLastWriteWins ==
    (lastOp.op = "Header" /\ pre.err = NoErr /\ pre.header # Nil)
    => Last.request.Header =
          [pre.header EXCEPT ![CanonicalKey(lastOp.arg[1])] = <<lastOp.arg[2]>>]

C19_Witness ==
    /\ lastOp.op = "Header"
    /\ lastOp.arg = <<"X-Test", "b">>
    /\ pre.err = NoErr
    /\ pre.header # Nil
    /\ pre.header["X-Test"] = <<"a">>
    /\ Last.request.Header["X-Test"] = <<"b">>

\* two visiting orders of one and the same map
SameMap(m1, m2) ==
    /\ Len(m1) = Len(m2)
    /\ {m1[n] : n \in DOMAIN m1} = {m2[n] : n \in DOMAIN m2}

(* C20. Headers does not depend on the order in which the range statement  *)
(* visits the map: called on any builder the program can hold, with any    *)
(* map, it leaves the same builder for every visiting order of that map.   *)
C20_HeadersOrderIrrelevant ==
    \A i \in DOMAIN reqs : \A m1, m2 \in HeaderMaps :
        SameMap(m1, m2) => Headers(reqs[i], m1) = Headers(reqs[i], m2)

\* builder b has a request and no deferred error: its chain calls take effect
Live(b) == b.err = NoErr /\ b.request # Nil

\* the values of key k in the query of builder b
QueryOf(b, k) == Query(b.request.RawQuery)[k]

(* C21. Query keys are last-write-wins: on any builder the program can     *)
(* hold, QueryParam, QueryParams and QueryValues writing a key that the    *)
(* query has already leave exactly one value for it, the one written.      *)
C21_QueryLastWriteWins ==
    \A i \in DOMAIN reqs :
        Live(reqs[i])
        => /\ \A p \in QueryInputs :
                 QueryOf(reqs[i], p[1]) # <<>>
                 => QueryOf(QueryParam(reqs[i], p[1], p[2]), p[1]) = <<p[2]>>
           /\ \A params \in ParamMaps : \A n \in DOMAIN params :
                 QueryOf(reqs[i], params[n][1]) # <<>>
                 => QueryOf(QueryParams(reqs[i], params), params[n][1])
                       = <<params[n][2]>>
           /\ \A m \in ValueMaps : \A n \in DOMAIN m.keys :
                 (QueryOf(reqs[i], m.keys[n]) # <<>> /\ Get(m.values, m.keys[n]) # "")
                 => QueryOf(QueryValues(reqs[i], m.values, m.keys), m.keys[n])
                       = <<Get(m.values, m.keys[n])>>

(* C22. After a QueryValues call that takes effect, a key that the given   *)
(* values map to the empty string is not in the query string, whether or   *)
(* not it was there before.                                                *)
C22_EmptyValueRemovesKey ==
    (lastOp.op = "QueryValues" /\ pre.err = NoErr /\ pre.header # Nil)
    => \A n \in DOMAIN lastOp.arg.keys :
          Get(lastOp.arg.values, lastOp.arg.keys[n]) = ""
          => /\ QueryOf(Last, lastOp.arg.keys[n]) = <<>>
             /\ \A x \in DOMAIN Last.request.RawQuery :
                   Last.request.RawQuery[x][1] # lastOp.arg.keys[n]

C22_Witness ==
    /\ lastOp.op = "QueryValues"
    /\ pre.err = NoErr
    /\ pre.query = << <<"p", "b">>, <<"q", "">> >>
    /\ lastOp.arg.values["q"] = <<"">>
    /\ Last.request.RawQuery = << <<"p", "b">>, <<"p", "a">> >>

(* C23. A Send on a builder that has a request and no deferred error, and *)
(* whose multipart body (if any) is closed without error, hands the        *)
(* request to the transport exactly once and returns what the transport    *)
(* answered: its response with a nil error, or a nil response with its     *)
(* error.                                                                  *)
C23_SendOnceVerbatim ==
    (lastOp.op = "Send" /\ pre.err = NoErr /\ pre.header # Nil
        /\ ~(pre.multipart /\ lastOp.outcome = "error"))
    => /\ Len(sent) = pre.sent + 1
       /\ ret = IF lastOp.arg[1] = "response"
                THEN [resp |-> "response", err |-> NoErr]
                ELSE [resp |-> NoResp, err |-> lastOp.arg[1]]

C23_Witness ==
    /\ lastOp.op = "Send"
    /\ pre.err = NoErr
    /\ pre.header # Nil
    /\ lastOp.arg = <<"transport error">>
    /\ ret = [resp |-> NoResp, err |-> "transport error"]
    /\ Len(sent) = pre.sent + 1

(* C24. Cancellation aborts the transport call: whenever the caller's     *)
(* context is done while a Send of a Request made with that context is     *)
(* inside the transport call, that Send eventually returns a nil response  *)
(* and the context's error.                                                *)
C24_CancelAborts ==
    [](  (transport.inflight # 0 /\ transport.done)
         => <>(/\ transport.inflight = 0
               /\ lastOp.op = "Send"
               /\ ret = [resp |-> NoResp, err |-> "context canceled"]))

C24_Witness ==
    /\ transport.done
    /\ transport.inflight = 0
    /\ lastOp.op = "Send"
    /\ pre.multipart
    /\ Len(sent) = 1
    /\ ret = [resp |-> NoResp, err |-> "context canceled"]

C26_FailureVisibleInErr ==
    \A i \in DOMAIN reqs :
        RequestErr(reqs[i].req) # NoErr => GotenbergErr(reqs[i]) # NoErr

(* C27. Send on the conversion Request of gotenberg.go, called when Err()  *)
(* is non-nil, returns that error and a nil response and makes no call of  *)
(* the Send of the builder it wraps.                                       *)
C27_SendChecksErrFirst ==
    (lastOp.op = "Send" /\ pre.err # NoErr)
    => /\ ret = [resp |-> NoResp, err |-> pre.err]
       /\ lastOp.arg[2] = 0

BoundaryOf(header) ==
    LET announced == {b \in 1..(boundaries + 3) :
                         header[ContentType] =
                            <<"multipart/form-data; boundary=" \o Itoa(b)>>}
    IN  IF announced = {} THEN 0 ELSE CHOOSE b \in announced : TRUE

RECURSIVE ReadParts(_, _, _, _)
ReadParts(segments, n, boundary, parts) ==
    IF n > Len(segments) THEN [parts |-> parts, err |-> "unexpected EOF"]
    ELSE LET s == segments[n]
         IN  IF s.boundary = boundary /\ s.t = "end"
             THEN [parts |-> parts, err |-> NoErr]
             ELSE IF s.boundary = boundary /\ s.t = "part" /\ (n = 1 \/ s.lead)
             THEN ReadParts(segments, n + 1, boundary,
                            Append(parts, [kind |-> s.kind, name |-> s.name,
                                           filename |-> s.filename, data |-> s.data]))
             ELSE IF parts = <<>>
             THEN ReadParts(segments, n + 1, boundary, parts)
             ELSE ReadParts(segments, n + 1, boundary,
                            [parts EXCEPT ![Len(parts)].data =
                                @ \o "--" \o (IF s.t = "part" THEN s.data ELSE "--")])

\* the parts a server reads from the request wire, and the error of the reading
ParseMultipartForm(wire) ==
    IF BoundaryOf(wire.request.Header) = 0
    THEN [parts |-> <<>>, err |-> "no multipart boundary param in Content-Type"]
    ELSE ReadParts(wire.segments, 1, BoundaryOf(wire.request.Header), <<>>)

\* builder b after one FormField and one File call, in either order, both succeeding
OneFieldOneFile(b, f, content, fieldFirst) ==
    IF fieldFirst
    THEN File(FormField(b, Fresh, f[1], f[2], "ok"), bufferPool, Fresh,
              "files", "upload.txt", content, "ok", NewItem).r
    ELSE FormField(File(b, bufferPool, Fresh, "files", "upload.txt", content, "ok",
                        NewItem).r,
                   Fresh, f[1], f[2], "ok")

(* C29. For a Request of httpclient.go on which FormField(name, value)    *)
(* and File(field, filename, content) are each called once and succeed,    *)
(* the body Send hands over parses, under a compliant multipart reader     *)
(* using the boundary announced in Content-Type, to exactly two parts: one *)
(* field of that name and value and one file of that field name, filename  *)
(* and content.                                                            *)
C29_BodyParses ==
    variant = "request" =>
    \A i \in DOMAIN reqs :
        (Live(reqs[i]) /\ ~reqs[i].multipart) =>
        \A f \in FieldInputs, content \in {c \in Contents : ~c.fails},
           fieldFirst \in BOOLEAN :
            LET s == Send(OneFieldOneFile(reqs[i], f, content, fieldFirst),
                          "ok", "response", TRUE)
                form == ParseMultipartForm(s.wire[1])
            IN  /\ Len(s.wire) = 1
                /\ form.err = NoErr
                /\ Len(form.parts) = 2
                /\ {form.parts[1], form.parts[2]} =
                      {[kind |-> "field", name |-> f[1], filename |-> "",
                        data |-> f[2]],
                       [kind |-> "file", name |-> "files", filename |-> "upload.txt",
                        data |-> content.data]}

C29_Witness ==
    /\ variant = "request"
    /\ lastOp.op = "Send"
    /\ Len(sent) = 1
    /\ ParseMultipartForm(sent[1]) =
          [parts |-> <<[kind |-> "field", name |-> "name", filename |-> "",
                        data |-> "value"],
                       [kind |-> "file", name |-> "files", filename |-> "upload.txt",
                        data |-> "hello"]>>,
           err |-> NoErr]

(* C30. A conversion call that lacks its primary input (ConvertURLToPDF   *)
(* with an empty URL, ConvertHTMLToPDF with a nil reader, Execute on a     *)
(* builder that has no HTML) returns an error and a nil response, and      *)
(* hands nothing to the transport.                                         *)
C30_MissingInputRejected ==
    (\/ (lastOp.op = "ConvertURLToPDF" /\ lastOp.arg = <<"">>)
     \/ (lastOp.op \in {"ConvertHTMLToPDF", "Execute"} /\ lastOp.arg = <<Nil>>))
    => /\ ret.err # NoErr
       /\ ret.resp = NoResp
       /\ Len(sent) = pre.sent

C30_Witness ==
    /\ lastOp.op = "Execute"
    /\ lastOp.arg = <<Nil>>
    /\ ret = [resp |-> NoResp, err |-> "HTML content is required"]
    /\ Len(sent) = 1
    /\ pre.sent = 1

(* C31. URLConversionBuilder.Execute called with a non-empty URL does not *)
(* fail with "URL is required", and when it returns a response it has      *)
(* handed to the transport one request whose form carries that URL.        *)
C31_ExecuteUsesURL ==
    (lastOp.op = "URLExecute" /\ lastOp.arg # <<"">>)
    => /\ ret.err # "URL is required"
       /\ ret.resp # NoResp =>
             /\ Len(sent) = pre.sent + 1
             /\ \E k \in DOMAIN sent[Len(sent)].segments :
                   /\ sent[Len(sent)].segments[k].t = "part"
                   /\ sent[Len(sent)].segments[k].kind = "field"
                   /\ PartOf(sent[Len(sent)].segments[k]) =
                          <<FieldURL, "", lastOp.arg[1]>>

C33_NotFoundOnlyWhenAbsent ==
    (lastOp.op = "HandleDownload" /\ Len(sent) > pre.sent) =>
        /\ ret.status = 404 <=> lastOp.arg[2] \notin DOMAIN client.bucket
        /\ (\E k \in pre.sent + 1 .. Len(sent) :
               sent[k].err \notin {NoErr, "NoSuchKey"}) => ret.status = 500

\* the parts among the segments of a dispatched body
PartsOf(wire) == SelectSeq(wire.segments, LAMBDA x : x.t = "part")

(* C34. On a reused Client, whatever was done on it before, an operation   *)
(* started with a Method* call, given one form field and sent, dispatches  *)
(* a body whose only part is that field: no part of an earlier operation,  *)
(* sent or not, is in it.                                                  *)
C34_NoLeakIntoNewOperation ==
    variant # "request" =>
    \A i \in DOMAIN reqs :
        (reqs[i].err = NoErr /\ ~reqs[i].crashed) =>
        LET started == ClientMethod(reqs[i], "POST", "ctx", "/test")
            filled == ClientFormField(started, Fresh, "name", "value", "ok")
            s == IF variant = "reset" THEN ClientSend(filled, "ok", "response", TRUE)
                 ELSE Send(filled, "ok", "response", TRUE)
        IN  /\ Len(s.wire) = 1
            /\ Len(PartsOf(s.wire[1])) = 1
            /\ PartOf(PartsOf(s.wire[1])[1]) = <<"name", "", "value">>

(* C35. No chain call and no Send that gets past its deferred-error      *)
(* check dereferences a nil target request: a builder whose request is    *)
(* nil (as after Reset, before a Method* call) is not crashed by the call. *)
C35_NoNilRequestDeref ==
    (/\ lastOp.op \in ChainOps \cup {"Send"}
     /\ lastOp.r \in DOMAIN reqs
     /\ pre.err = NoErr)
    => ~Last.crashed

(* C36. When Send on the reusable Client of config.go hands a multipart    *)
(* body to the transport and returns before the transport has read it to   *)
(* the end, the buffer behind the body still holds the finalized body: the *)
(* deferred Reset has not emptied it.                                      *)
C36_BodyKeptWhileRead ==
    variant = "reset" =>
    \A i \in DOMAIN reqs :
        (Live(reqs[i]) /\ ~reqs[i].crashed) =>
        LET s == ClientSend(reqs[i], "ok", "transport error", FALSE)
        IN  (Len(s.wire) = 1 /\ s.wire[1].segments # <<>>)
            => Unread(s.r) = s.wire[1].segments

(* C37. Every request of httpclient.go that Send hands to the transport    *)
(* with a Content-Length header has in that header the byte length of the  *)
(* body attached to it, whatever the order of the Body, BytesBody,         *)
(* StringBody, JSONBody and multipart calls of its chain.                  *)
C37_ContentLengthIsBodyLength ==
    variant = "request" =>
    \A k \in DOMAIN sent :
        sent[k].request.Header[ContentLength] # <<>>
        => sent[k].request.Header[ContentLength] = <<Itoa(sent[k].length)>>

(* The bodies a body-replacing call closes.  Body closes the body it finds *)
(* attached; BytesBody (and StringBody and JSONBody through it) and the    *)
(* multipart branch of Send assign r.request.Body and close nothing.       *)
BodyCloses(b, body) ==
    IF b.err # NoErr \/ b.request = Nil THEN <<>>
    ELSE IF b.request.Body # Nil THEN <<b.request.Body>>
    ELSE <<>>

BytesBodyCloses(b, body) == <<>>

SendCloses(b) == <<>>

(* C38. Whenever a call replaces the body of a Request that holds a        *)
(* caller's ReadCloser (a later Body, a BytesBody, StringBody or JSONBody, *)
(* or Send attaching the multipart body), the call closes the replaced     *)
(* body exactly once.                                                      *)
C38_ReplacedBodyClosedOnce ==
    variant = "request" =>
    \A i \in DOMAIN reqs :
        (Live(reqs[i]) /\ reqs[i].request.Body # Nil
         /\ reqs[i].request.Body.kind = "reader")
        => /\ \A body \in Readers :
                 /\ Body(reqs[i], body).request.Body.data = body
                 /\ BodyCloses(reqs[i], body) = <<reqs[i].request.Body>>
           /\ \A body \in Payloads :
                 /\ BytesBody(reqs[i], body).request.Body.kind = "raw"
                 /\ BytesBodyCloses(reqs[i], body) = <<reqs[i].request.Body>>
           /\ reqs[i].multipart =>
                 SendCloses(reqs[i]) = <<reqs[i].request.Body>>

(* C39. After a QueryValues(values) call that takes effect, for every key *)
(* of values whose first value is non-empty, the query holds every value   *)
(* values has for that key.                                                *)
C39_AllValuesAdded ==
    (lastOp.op = "QueryValues" /\ pre.err = NoErr /\ pre.header # Nil)
    => \A n \in DOMAIN lastOp.arg.keys :
          LET k == lastOp.arg.keys[n]
          IN  Get(lastOp.arg.values, k) # ""
              => \A m \in DOMAIN lastOp.arg.values[k] :
                    \E x \in DOMAIN QueryOf(Last, k) :
                        QueryOf(Last, k)[x] = lastOp.arg.values[k][m]

(* C40. The scratch buffer a File call passes to io.CopyBuffer has at      *)
(* least the default length of 4096, also when the pool hands out a buffer *)
(* that was put back with length zero; the same holds for the buffer the   *)
(* reusable Client re-slices from any buffer on the free list.             *)
C40_ScratchBufferNonEmpty ==
    /\ \A i \in DOMAIN held : held[i] # Nil => held[i].len >= bufferSize
    /\ \A x \in bufferPool.free : ClientAcquire(x).len >= bufferSize

C40_Witness ==
    \E i \in DOMAIN held :
        /\ held[i] # Nil
        /\ held[i].dirty > 0
        /\ held[i].len = bufferSize
        /\ bufferPool.puts >= 1
        /\ bufferPool.news = 1

====
